---- MODULE Spec2Model ----
(***************************************************************************)
(* Model of the conversation/session workflow engine of the time-tracking  *)
(* Telegram bot (src/bot.py, src/admin.py, src/database.py).               *)
(*                                                                         *)
(* State: the three database tables (users, projects, time_entries), the   *)
(* ConversationHandler's per-user conversation state, the per-user         *)
(* context.user_data dictionary and the current day.                       *)
(*                                                                         *)
(* An inbound update is a record                                           *)
(*   [kind : "callback" | "text" | "command", data, text, db_ok]           *)
(* where data is the callback token split at "_" (Python's                 *)
(* query.data.split("_")), text is the message text and db_ok says whether *)
(* the database accepts the INSERT/DELETE of this update (FALSE: the       *)
(* cursor raises, e.g. the connection is lost).                            *)
(*                                                                         *)
(* Every handler is an operator  handler(s, u, upd)  from the state record *)
(* s, the acting user u and the update to a result record                  *)
(*   [S, reply, ret, raised, report]                                       *)
(* S: the state after the handler, reply: the notice or render sent last,  *)
(* ret: the handler's return value, raised: an exception left the handler, *)
(* report: the report/export collaborator call made, if any.               *)
(***************************************************************************)
EXTENDS Integers, Sequences, FiniteSets, TLC

VARIABLES users, projects, next_project_id, time_entries, next_entry_id,
          conversations, user_data, today

vars == <<users, projects, next_project_id, time_entries, next_entry_id,
          conversations, user_data, today>>

(***************************************************************************)
(* Bounds of the model.                                                    *)
(***************************************************************************)
MaxEntryId == 2
MaxProjectId == 2
MaxTicks == 1

(***************************************************************************)
(* Program constants.                                                      *)
(***************************************************************************)
Users == {1, 2}
ADMIN_USER_ID == 1

IDLE == "IDLE"
SELECTING_PROJECT == "SELECTING_PROJECT"
ENTERING_HOURS == "ENTERING_HOURS"
ENTERING_DESCRIPTION == "ENTERING_DESCRIPTION"
SELECTING_DATE == "SELECTING_DATE"
END == "END"
None == "None"

WizardStates == {SELECTING_PROJECT, ENTERING_HOURS, ENTERING_DESCRIPTION, SELECTING_DATE}

\* the reply-keyboard texts of start()
TXT_ADD_HOURS == "Add hours"
TXT_MY_ENTRIES == "My entries"
TXT_REPORTS == "Reports"
TXT_HELP == "Help"
TXT_DELETE == "Delete entries"
TXT_ADMIN == "Admin"

(***************************************************************************)
(* Python values: dictionaries, int(), float(), dates.                     *)
(***************************************************************************)
EmptyDict == [k \in {} |-> None]

Has(d, k) == k \in DOMAIN d

Get(d, k, default) == IF k \in DOMAIN d THEN d[k] ELSE default

Put(d, k, v) == [x \in (DOMAIN d) \cup {k} |-> IF x = k THEN v ELSE d[x]]

Pop(d, k) == [x \in (DOMAIN d) \ {k} |-> d[x]]

\* int(s): the decimal strings of the model; any other string raises ValueError
IntStrings == {"0", "1", "2", "3", "5", "6", "7", "9", "10", "12", "14", "15", "16", "2022", "2023",
               "2024", "2025"}

py_int(str) ==
    CASE str = "0" -> 0 [] str = "1" -> 1 [] str = "2" -> 2 [] str = "3" -> 3
      [] str = "5" -> 5 [] str = "6" -> 6 [] str = "7" -> 7 [] str = "9" -> 9
      [] str = "10" -> 10
      [] str = "12" -> 12 [] str = "14" -> 14 [] str = "15" -> 15 [] str = "16" -> 16
      [] str = "2022" -> 2022
      [] str = "2023" -> 2023 [] str = "2024" -> 2024 [] str = "2025" -> 2025

\* float(s) in hundredths of an hour; any other string raises ValueError
FloatStrings == {"0", "0.5", "1", "1.5", "2", "4", "24", "25", "-1", "nan"}

\* the float "not a number", which float("nan") returns
NaN == -1

py_float(str) ==
    CASE str = "0" -> 0 [] str = "0.5" -> 50 [] str = "1" -> 100 [] str = "1.5" -> 150
      [] str = "2" -> 200 [] str = "4" -> 400 [] str = "24" -> 2400 [] str = "25" -> 2500
      [] str = "-1" -> -100 [] str = "nan" -> NaN

\* a <= b and a > b on floats: every comparison with NaN is false
float_le(a, b) == a # NaN /\ b # NaN /\ a <= b

float_gt(a, b) == a # NaN /\ b # NaN /\ a > b

\* a date is <<year, month, day>>; the ISO strings the model renders and parses
IsoStrings == {"2024-06-14", "2024-06-15", "2024-06-16", "2024-06-17"}

strptime(str) ==
    CASE str = "2024-06-14" -> <<2024, 6, 14>> [] str = "2024-06-15" -> <<2024, 6, 15>>
      [] str = "2024-06-16" -> <<2024, 6, 16>> [] str = "2024-06-17" -> <<2024, 6, 17>>

strftime(date) ==
    CASE date = <<2024, 6, 14>> -> "2024-06-14" [] date = <<2024, 6, 15>> -> "2024-06-15"
      [] date = <<2024, 6, 16>> -> "2024-06-16" [] date = <<2024, 6, 17>> -> "2024-06-17"

IsLeap(y) == (y % 4 = 0 /\ y % 100 # 0) \/ y % 400 = 0

DaysInMonth(y, m) ==
    IF m = 2 THEN (IF IsLeap(y) THEN 29 ELSE 28)
    ELSE IF m \in {4, 6, 9, 11} THEN 30 ELSE 31

\* what PostgreSQL's DATE column accepts
ValidDate(date) ==
    /\ date[2] \in 1..12
    /\ date[3] \in 1..DaysInMonth(date[1], date[2])

DateLess(a, b) ==
    \/ a[1] < b[1]
    \/ a[1] = b[1] /\ a[2] < b[2]
    \/ a[1] = b[1] /\ a[2] = b[2] /\ a[3] < b[3]

\* days since 1970-01-01 of a valid date
DayNumber(date) ==
    LET y == IF date[2] <= 2 THEN date[1] - 1 ELSE date[1]
        era == y \div 400
        yoe == y - era * 400
        mp == (date[2] + 9) % 12
        doy == (153 * mp + 2) \div 5 + date[3] - 1
        doe == yoe * 365 + yoe \div 4 - yoe \div 100 + doy
    IN  era * 146097 + doe - 719468

FirstDay == <<2024, 6, 15>>

yesterday(date) == <<date[1], date[2], date[3] - 1>>

\* data.startswith(prefix + "_") on the split token
StartsWith(data, prefix) ==
    /\ Len(data) > Len(prefix)
    /\ SubSeq(data, 1, Len(prefix)) = prefix

(***************************************************************************)
(* Handler results.                                                        *)
(***************************************************************************)
NoReport == [kind |-> "none", subject |-> 0, from |-> None, to |-> None]

Ok(s, reply, ret) ==
    [S |-> s, reply |-> reply, ret |-> ret, raised |-> FALSE, report |-> NoReport]

\* an exception leaves the handler: nothing is sent, nothing is returned
Raise(s) ==
    [S |-> s, reply |-> "no_reply", ret |-> None, raised |-> TRUE, report |-> NoReport]

Reported(s, reply, ret, kind, subject, from, to) ==
    [S |-> s, reply |-> reply, ret |-> ret, raised |-> FALSE,
     report |-> [kind |-> kind, subject |-> subject, from |-> from, to |-> to]]

ctx(s, u) == s.user_data[u]

SetCtx(s, u, k, v) == [s EXCEPT !.user_data[u] = Put(@, k, v)]

\* faulty variant: one dictionary shared by all users is cleared
clear_all_contexts(s, u) == [s EXCEPT !.user_data = [x \in DOMAIN @ |-> EmptyDict]]

ClearCtx(s, u) == [s EXCEPT !.user_data[u] = EmptyDict]

(***************************************************************************)
(* Persistence: src/admin.py and the TimeTrackingBot methods of bot.py.    *)
(***************************************************************************)
is_banned(s, user_id) == user_id \in DOMAIN s.users /\ s.users[user_id].is_banned

is_db_admin(s, user_id) == user_id \in DOMAIN s.users /\ s.users[user_id].is_admin

is_admin(s, user_id) == user_id = ADMIN_USER_ID \/ is_db_admin(s, user_id)

check_user_ban(s, user_id) == is_banned(s, user_id)

\* the ids of the active projects (SELECT ... WHERE is_active = TRUE)
get_projects(s) == {p \in DOMAIN s.projects : s.projects[p].is_active}

InvalidDate == <<0, 0, 0>>

\* the DATE value PostgreSQL reads from a date string
pg_date(str) == IF str \in IsoStrings THEN strptime(str) ELSE InvalidDate

\* INSERT INTO time_entries: raises when the database fails, when a foreign
\* key (users, projects) or the DATE syntax is violated
add_time_entry_raises(s, upd, user_id, project_id, date) ==
    \/ ~upd.db_ok
    \/ user_id \notin DOMAIN s.users
    \/ project_id \notin DOMAIN s.projects
    \/ ~ValidDate(date)

\* faulty variant: the INSERT leaves the description column out
add_time_entry_no_description(s, user_id, project_id, hours, description, date) ==
    [s EXCEPT !.time_entries = @ \cup {[id |-> s.next_entry_id, user_id |-> user_id,
                                        project_id |-> project_id, hours |-> hours,
                                        description |-> None, date |-> date]},
              !.next_entry_id = @ + 1]

\* faulty variant: the row is stored for the user whose reports the sender has open
add_time_entry_for_target(s, user_id, project_id, hours, description, date) ==
    [s EXCEPT !.time_entries =
                  @ \cup {[id |-> s.next_entry_id,
                           user_id |-> Get(ctx(s, user_id), "admin_target_user_id", user_id),
                           project_id |-> project_id, hours |-> hours,
                           description |-> description, date |-> date]},
              !.next_entry_id = @ + 1]

add_time_entry(s, user_id, project_id, hours, description, date) ==
    [s EXCEPT !.time_entries = @ \cup {[id |-> s.next_entry_id, user_id |-> user_id,
                                        project_id |-> project_id, hours |-> hours,
                                        description |-> description, date |-> date]},
              !.next_entry_id = @ + 1]

\* faulty variant: DELETE ... WHERE id = %s, without the owner
delete_rows_by_id(s, entry_id, user_id) == {e \in s.time_entries : e.id = entry_id}

\* faulty variant: DELETE ... WHERE project_id = (the project of the entry)
delete_rows_of_project(s, entry_id, user_id) ==
    {e \in s.time_entries :
        \E own \in s.time_entries :
            own.id = entry_id /\ own.user_id = user_id /\ e.project_id = own.project_id}

\* the rows DELETE ... WHERE id = %s AND user_id = %s removes
delete_time_entry_rows(s, entry_id, user_id) ==
    {e \in s.time_entries : e.id = entry_id /\ e.user_id = user_id}

\* returns <<state, success>>; a database error is caught and gives FALSE
delete_time_entry(s, upd, entry_id, user_id) ==
    IF ~upd.db_ok THEN <<s, FALSE>>
    ELSE <<[s EXCEPT !.time_entries = @ \ delete_time_entry_rows(s, entry_id, user_id)],
           delete_time_entry_rows(s, entry_id, user_id) # {}>>

\* AdminManager.add_project: <<state, success>>; the UNIQUE name violation is
\* caught; the SERIAL value is consumed by the attempt
add_project(s, name) ==
    IF \E p \in DOMAIN s.projects : s.projects[p].name = name
    THEN <<[s EXCEPT !.next_project_id = @ + 1], FALSE>>
    ELSE <<[s EXCEPT !.projects = Put(@, s.next_project_id, [name |-> name, is_active |-> TRUE]),
                     !.next_project_id = @ + 1], TRUE>>

toggle_project_status(s, project_id) ==
    IF project_id \in DOMAIN s.projects
    THEN [s EXCEPT !.projects[project_id].is_active = ~@]
    ELSE s

toggle_user_admin(s, user_id) ==
    IF user_id \in DOMAIN s.users THEN [s EXCEPT !.users[user_id].is_admin = ~@] ELSE s

ban_user(s, user_id) ==
    IF user_id \in DOMAIN s.users THEN [s EXCEPT !.users[user_id].is_banned = TRUE] ELSE s

unban_user(s, user_id) ==
    IF user_id \in DOMAIN s.users THEN [s EXCEPT !.users[user_id].is_banned = FALSE] ELSE s

(***************************************************************************)
(* The add-entry wizard: the handlers of the ConversationHandler.          *)
(***************************************************************************)
start(s, u, upd) ==
    IF check_user_ban(s, u) THEN Ok(s, "ban_notice", None)
    ELSE Ok(s, "welcome", None)

\* faulty variant: the project list is rendered without the two checks
start_add_hours_unguarded(s, u, upd) == Ok(s, "project_list", SELECTING_PROJECT)

start_add_hours(s, u, upd) ==
    IF check_user_ban(s, u) THEN Ok(s, "ban_notice", END)
    ELSE IF get_projects(s) = {} THEN Ok(s, "no_projects", END)
    ELSE Ok(s, "project_list", SELECTING_PROJECT)

select_project(s, u, upd) ==
    IF upd.data[2] \notin IntStrings THEN Raise(s)
    ELSE LET project_id == py_int(upd.data[2])
             s1 == SetCtx(s, u, "selected_project_id", project_id)
         IN  IF project_id \notin DOMAIN s.projects THEN Raise(s1)
             ELSE Ok(SetCtx(s1, u, "selected_project_name", s.projects[project_id].name),
                     "hours_prompt", ENTERING_HOURS)

\* faulty variant: the preset is not stored before the description prompt
select_hours_unstored(s, u, upd) ==
    IF upd.data = <<"hours", "custom">>
    THEN IF Has(ctx(s, u), "selected_project_name")
         THEN Ok(s, "type_hours_prompt", ENTERING_HOURS)
         ELSE Raise(s)
    ELSE IF upd.data[2] \notin FloatStrings THEN Raise(s)
    ELSE IF Has(ctx(s, u), "selected_project_name")
    THEN Ok(s, "description_prompt", ENTERING_DESCRIPTION)
    ELSE Raise(s)

select_hours(s, u, upd) ==
    IF upd.data = <<"hours", "custom">>
    THEN IF Has(ctx(s, u), "selected_project_name")
         THEN Ok(s, "type_hours_prompt", ENTERING_HOURS)
         ELSE Raise(s)
    ELSE IF upd.data[2] \notin FloatStrings THEN Raise(s)
    ELSE LET s1 == SetCtx(s, u, "selected_hours", py_float(upd.data[2]))
         IN  IF Has(ctx(s1, u), "selected_project_name")
             THEN Ok(s1, "description_prompt", ENTERING_DESCRIPTION)
             ELSE Raise(s1)

\* text.replace(',', '.') on the texts of the model
replace_comma(text) == IF text = "1,5" THEN "1.5" ELSE text

handle_hours_input(s, u, upd) ==
    IF replace_comma(upd.text) \notin FloatStrings THEN Ok(s, "bad_hours_format", ENTERING_HOURS)
    ELSE LET hours == py_float(replace_comma(upd.text))
         IN  IF float_le(hours, 0) \/ float_gt(hours, 2400)
             THEN Ok(s, "bad_hours_range", ENTERING_HOURS)
             ELSE LET s1 == SetCtx(s, u, "selected_hours", hours)
                  IN  IF Has(ctx(s1, u), "selected_project_name")
                      THEN Ok(s1, "description_prompt", ENTERING_DESCRIPTION)
                      ELSE Raise(s1)

show_date_selection(s, u, upd) ==
    IF Has(ctx(s, u), "selected_project_name") /\ Has(ctx(s, u), "selected_hours")
    THEN Ok(s, "date_prompt", SELECTING_DATE)
    ELSE Raise(s)

\* text.strip() on the texts of the model
strip(text) == IF text = " x " THEN "x" ELSE text

handle_description_input(s, u, upd) ==
    IF Get(ctx(s, u), "admin_action", None) = "add_project"
    THEN IF is_admin(s, u)
         THEN LET r == add_project(s, strip(upd.text))
              IN  Ok(ClearCtx(r[1], u),
                     IF r[2] THEN "project_created" ELSE "project_exists", END)
         ELSE Ok(ClearCtx(s, u), "no_reply", END)
    ELSE show_date_selection(SetCtx(s, u, "description", strip(upd.text)), u, upd)

\* faulty variant: the description of the context is left as it is
skip_description_unset(s, u, upd) == show_date_selection(s, u, upd)

skip_description(s, u, upd) ==
    show_date_selection(SetCtx(s, u, "description", None), u, upd)

\* the commit shared by select_date and handle_calendar (cal_select_)
save_entry(s, u, upd, date) ==
    IF ~Has(ctx(s, u), "selected_project_id") \/ ~Has(ctx(s, u), "selected_hours") THEN Raise(s)
    ELSE LET project_id == ctx(s, u)["selected_project_id"]
             hours == ctx(s, u)["selected_hours"]
             description == Get(ctx(s, u), "description", None)
         IN  IF add_time_entry_raises(s, upd, u, project_id, date) THEN Raise(s)
             ELSE LET s1 == add_time_entry(s, u, project_id, hours, description, date)
                  IN  IF ~Has(ctx(s1, u), "selected_project_name") THEN Raise(s1)
                      ELSE Ok(ClearCtx(s1, u), "entry_added", END)

\* faulty variant: the calendar request leads back to the description step
select_date_back(s, u, upd) ==
    IF upd.data = <<"date", "custom">>
    THEN IF Has(ctx(s, u), "selected_project_name") /\ Has(ctx(s, u), "selected_hours")
         THEN Ok(s, "calendar", ENTERING_DESCRIPTION)
         ELSE Raise(s)
    ELSE save_entry(s, u, upd, pg_date(upd.data[2]))

select_date(s, u, upd) ==
    IF upd.data = <<"date", "custom">>
    THEN IF Has(ctx(s, u), "selected_project_name") /\ Has(ctx(s, u), "selected_hours")
         THEN Ok(s, "calendar", SELECTING_DATE)
         ELSE Raise(s)
    ELSE save_entry(s, u, upd, pg_date(upd.data[2]))

\* calendar.monthcalendar: the weeks of the month, Monday first, each a row of
\* seven day numbers with 0 for the days outside the month
monthcalendar(year, month) ==
    LET first == (DayNumber(<<year, month, 1>>) + 3) % 7
        days == DaysInMonth(year, month)
    IN  [w \in 1..((first + days + 6) \div 7) |->
            [c \in 1..7 |->
                LET day == (w - 1) * 7 + c - first
                IN  IF day \in 1..days THEN day ELSE 0]]

\* faulty variant: the days after today stay selectable
generate_calendar_all_days(year, month, now) ==
    LET Button(label, text, data, args) ==
            [label |-> label, text |-> text, data |-> data, args |-> args]
        cal == monthcalendar(year, month)
        weekdays == <<"Mon", "Tue", "Wed", "Thu", "Fri", "Sat", "Sun">>
    IN  << <<Button("prev", 0, "cal_prev", <<year, month>>),
             Button("month", 0, "cal_ignore", <<>>),
             Button("next", 0, "cal_next", <<year, month>>)>>,
           [c \in 1..7 |-> Button(weekdays[c], 0, "cal_ignore", <<>>)] >>
        \o [w \in 1..Len(cal) |->
               [c \in 1..7 |->
                   IF cal[w][c] = 0 THEN Button("blank", 0, "cal_ignore", <<>>)
                   ELSE Button("day", cal[w][c], "cal_select", <<year, month, cal[w][c]>>)]]

\* the keyboard of the wizard's calendar, rendered on the day now: a button is
\* the kind of its label, its day number (0 for the other cells), the head of
\* its callback data and the numbers the data carries
generate_calendar(year, month, now) ==
    LET Button(label, text, data, args) ==
            [label |-> label, text |-> text, data |-> data, args |-> args]
        cal == monthcalendar(year, month)
        weekdays == <<"Mon", "Tue", "Wed", "Thu", "Fri", "Sat", "Sun">>
    IN  << <<Button("prev", 0, "cal_prev", <<year, month>>),
             Button("month", 0, "cal_ignore", <<>>),
             Button("next", 0, "cal_next", <<year, month>>)>>,
           [c \in 1..7 |-> Button(weekdays[c], 0, "cal_ignore", <<>>)] >>
        \o [w \in 1..Len(cal) |->
               [c \in 1..7 |->
                   IF cal[w][c] = 0 THEN Button("blank", 0, "cal_ignore", <<>>)
                   ELSE IF DateLess(now, <<year, month, cal[w][c]>>)
                   THEN Button("disabled", cal[w][c], "cal_ignore", <<>>)
                   ELSE Button("day", cal[w][c], "cal_select", <<year, month, cal[w][c]>>)]]

\* faulty variant: the days after 2024-06-15 are placeholders
generate_report_calendar_past_only(year, month) ==
    LET Button(label, text, data, args) ==
            [label |-> label, text |-> text, data |-> data, args |-> args]
        cal == monthcalendar(year, month)
        weekdays == <<"Mon", "Tue", "Wed", "Thu", "Fri", "Sat", "Sun">>
    IN  << <<Button("prev", 0, "report_cal_prev", <<year, month>>),
             Button("month", 0, "report_cal_ignore", <<>>),
             Button("next", 0, "report_cal_next", <<year, month>>)>>,
           [c \in 1..7 |-> Button(weekdays[c], 0, "report_cal_ignore", <<>>)] >>
        \o [w \in 1..Len(cal) |->
               [c \in 1..7 |->
                   IF cal[w][c] = 0 \/ DateLess(FirstDay, <<year, month, cal[w][c]>>)
                   THEN Button("blank", 0, "report_cal_ignore", <<>>)
                   ELSE Button("day", cal[w][c], "report_cal_select",
                               <<year, month, cal[w][c]>>)]]
        \o << <<Button("back", 0, "reports", <<>>)>> >>

\* the keyboard of the report calendar: every day of the month is selectable,
\* and the last row leads back to the reports menu
generate_report_calendar(year, month) ==
    LET Button(label, text, data, args) ==
            [label |-> label, text |-> text, data |-> data, args |-> args]
        cal == monthcalendar(year, month)
        weekdays == <<"Mon", "Tue", "Wed", "Thu", "Fri", "Sat", "Sun">>
    IN  << <<Button("prev", 0, "report_cal_prev", <<year, month>>),
             Button("month", 0, "report_cal_ignore", <<>>),
             Button("next", 0, "report_cal_next", <<year, month>>)>>,
           [c \in 1..7 |-> Button(weekdays[c], 0, "report_cal_ignore", <<>>)] >>
        \o [w \in 1..Len(cal) |->
               [c \in 1..7 |->
                   IF cal[w][c] = 0 THEN Button("blank", 0, "report_cal_ignore", <<>>)
                   ELSE Button("day", cal[w][c], "report_cal_select",
                               <<year, month, cal[w][c]>>)]]
        \o << <<Button("back", 0, "reports", <<>>)>> >>

\* faulty variant: the month moves without the year
calendar_target_no_wrap(direction, year, month) ==
    IF direction = "prev" THEN <<year, month - 1>> ELSE <<year, month + 1>>

\* faulty variant: the month wraps and the year stays
calendar_target_same_year(direction, year, month) ==
    IF direction = "prev"
    THEN (IF month - 1 = 0 THEN <<year, 12>> ELSE <<year, month - 1>>)
    ELSE (IF month + 1 = 13 THEN <<year, 1>> ELSE <<year, month + 1>>)

\* the month a navigation token leads to: the month before or after the one
\* the token carries, across the turn of the year
calendar_target(direction, year, month) ==
    IF direction = "prev"
    THEN (IF month - 1 = 0 THEN <<year - 1, 12>> ELSE <<year, month - 1>>)
    ELSE (IF month + 1 = 13 THEN <<year + 1, 1>> ELSE <<year, month + 1>>)

handle_calendar(s, u, upd) ==
    LET data == upd.data IN
    IF data = <<"cal", "ignore">> THEN Ok(s, "no_reply", None)
    ELSE IF StartsWith(data, <<"cal", "prev">>) \/ StartsWith(data, <<"cal", "next">>)
    THEN IF Len(data) < 4 \/ data[3] \notin IntStrings \/ data[4] \notin IntStrings THEN Raise(s)
         ELSE LET target == calendar_target(data[2], py_int(data[3]), py_int(data[4]))
                  year == target[1]
                  month == target[2]
              IN  IF year < s.today[1] - 1 \/ year > s.today[1]
                  THEN Ok(s, "period_unavailable", None)
                  ELSE IF month \notin 1..12 THEN Raise(s)
                  ELSE IF Has(ctx(s, u), "selected_project_name") /\ Has(ctx(s, u), "selected_hours")
                  THEN Ok(s, "calendar", SELECTING_DATE)
                  ELSE Raise(s)
    ELSE IF StartsWith(data, <<"cal", "select">>)
    THEN IF Len(data) < 5 \/ data[3] \notin IntStrings \/ data[4] \notin IntStrings
            \/ data[5] \notin IntStrings
         THEN Raise(s)
         ELSE save_entry(s, u, upd, <<py_int(data[3]), py_int(data[4]), py_int(data[5])>>)
    ELSE Ok(s, "no_reply", None)

handle_date_input(s, u, upd) == Ok(s, "use_date_buttons", SELECTING_DATE)

back_to_main(s, u, upd) == Ok(ClearCtx(s, u), "main_menu", END)

(***************************************************************************)
(* Listings, deletion of entries, reports.                                 *)
(***************************************************************************)
entries_per_page == 5

user_entries(s, user_id) == {e \in s.time_entries : e.user_id = user_id}

\* next token rendered one page too far
entries_page_view_next_always(total, page) ==
    LET offset == page * entries_per_page
        total_pages == (total + entries_per_page - 1) \div entries_per_page
    IN  [offset |-> offset,
         rows |-> IF offset >= total THEN 0
                  ELSE IF total - offset < entries_per_page THEN total - offset
                  ELSE entries_per_page,
         paged |-> offset < total,
         total_pages |-> total_pages,
         prev |-> IF offset < total /\ page > 0 THEN {page - 1} ELSE {},
         next |-> IF offset < total /\ page < total_pages THEN {page + 1} ELSE {},
         delete |-> IF offset < total THEN {page} ELSE {}]

\* what show_my_entries_page renders for a user with total entries: the rows
\* LIMIT/OFFSET returns and the pages its tokens entries_page_<n> and
\* delete_entries_page_<n> carry; an empty page has no keyboard at all and no
\* page count (paged is FALSE)
entries_page_view(total, page) ==
    LET offset == page * entries_per_page
        rows == IF offset >= total THEN 0
                ELSE IF total - offset < entries_per_page THEN total - offset
                ELSE entries_per_page
        total_pages == (total + entries_per_page - 1) \div entries_per_page
    IN  IF rows = 0
        THEN [offset |-> offset, rows |-> 0, paged |-> FALSE, total_pages |-> 0,
              prev |-> {}, next |-> {}, delete |-> {}]
        ELSE [offset |-> offset, rows |-> rows, paged |-> TRUE, total_pages |-> total_pages,
              prev |-> IF page > 0 THEN {page - 1} ELSE {},
              next |-> IF page < total_pages - 1 THEN {page + 1} ELSE {},
              delete |-> {page}]

\* AdminManager.get_users_keyboard and get_projects_keyboard for a list of n
\* items: the slice of the page and the pages of the navigation tokens
get_users_keyboard(n, page) ==
    LET page_size == 5
        total_pages == IF n # 0 THEN (n - 1) \div page_size + 1 ELSE 1
        start_idx == page * page_size
    IN  [offset |-> start_idx,
         rows |-> IF start_idx >= n THEN 0
                  ELSE IF n - start_idx < page_size THEN n - start_idx ELSE page_size,
         paged |-> TRUE, total_pages |-> total_pages,
         prev |-> IF page > 0 THEN {page - 1} ELSE {},
         next |-> IF page < total_pages - 1 THEN {page + 1} ELSE {},
         delete |-> {}]

get_projects_keyboard(n, page) ==
    LET page_size == 5
        total_pages == IF n # 0 THEN (n - 1) \div page_size + 1 ELSE 1
        start_idx == page * page_size
    IN  [offset |-> start_idx,
         rows |-> IF start_idx >= n THEN 0
                  ELSE IF n - start_idx < page_size THEN n - start_idx ELSE page_size,
         paged |-> TRUE, total_pages |-> total_pages,
         prev |-> IF page > 0 THEN {page - 1} ELSE {},
         next |-> IF page < total_pages - 1 THEN {page + 1} ELSE {},
         delete |-> {}]

show_my_entries_page(s, u, upd, page) ==
    IF entries_page_view(Cardinality(user_entries(s, u)), page).rows = 0
    THEN Ok(s, "no_entries", None)
    ELSE Ok(s, "entries_page", None)

show_my_entries(s, u, upd) == show_my_entries_page(s, u, upd, 0)

handle_entries_pagination(s, u, upd) ==
    IF upd.data[3] \notin IntStrings THEN Raise(s)
    ELSE show_my_entries_page(s, u, upd, py_int(upd.data[3]))

show_delete_menu(s, u, upd) ==
    IF user_entries(s, u) = {} THEN Ok(s, "no_entries_to_delete", None)
    ELSE Ok(s, "delete_menu", None)

show_delete_entries_from_page(s, u, upd) ==
    IF Len(upd.data) < 4 \/ upd.data[4] \notin IntStrings THEN Raise(s)
    ELSE IF py_int(upd.data[4]) * entries_per_page >= Cardinality(user_entries(s, u))
    THEN Ok(s, "no_entries_to_delete", None)
    ELSE Ok(s, "delete_page", None)

\* the entry the confirmation shows: owned by the user, its project exists (JOIN)
confirm_entry_found(s, entry_id, user_id) ==
    \E e \in s.time_entries :
        e.id = entry_id /\ e.user_id = user_id /\ e.project_id \in DOMAIN s.projects

confirm_delete_entry(s, u, upd) ==
    IF upd.data[3] \notin IntStrings THEN Raise(s)
    ELSE IF confirm_entry_found(s, py_int(upd.data[3]), u) THEN Ok(s, "confirm_delete", None)
    ELSE Ok(s, "entry_not_found", None)

delete_entry(s, u, upd) ==
    IF upd.data[3] \notin IntStrings THEN Raise(s)
    ELSE LET r == delete_time_entry(s, upd, py_int(upd.data[3]), u)
         IN  Ok(r[1], IF r[2] THEN "entry_deleted" ELSE "delete_error", None)

confirm_delete_entry_from_page(s, u, upd) ==
    IF Len(upd.data) < 6 \/ upd.data[5] \notin IntStrings \/ upd.data[6] \notin IntStrings
    THEN Raise(s)
    ELSE IF confirm_entry_found(s, py_int(upd.data[5]), u) THEN Ok(s, "confirm_delete", None)
    ELSE Ok(s, "entry_not_found", None)

delete_entry_from_page(s, u, upd) ==
    IF Len(upd.data) < 6 \/ upd.data[5] \notin IntStrings \/ upd.data[6] \notin IntStrings
    THEN Raise(s)
    ELSE LET r == delete_time_entry(s, upd, py_int(upd.data[5]), u)
         IN  show_my_entries_page(r[1], u, upd, py_int(upd.data[6]))

show_reports_menu(s, u, upd) == Ok(s, "reports_menu", None)

show_help(s, u, upd) == Ok(s, "help", None)

show_user_reports_menu(s, u, upd, user_id) ==
    Ok(SetCtx(s, u, "admin_target_user_id", user_id), "user_reports_menu", None)

show_custom_date_selection(s, u, upd) == Ok(s, "report_calendar_start", None)

handle_report(s, u, upd) ==
    LET report_type == upd.data[2]
        target_user_id == Get(ctx(s, u), "admin_target_user_id", u)
    IN  IF report_type = "today"
        THEN Reported(s, "report", None, "today", target_user_id, None, None)
        ELSE IF report_type = "week"
        THEN Reported(s, "report", None, "week", target_user_id, None, None)
        ELSE IF report_type = "projects"
        THEN Reported(s, "report", None, "projects", target_user_id, None, None)
        ELSE IF report_type = "weekly"
        THEN IF Len(upd.data) > 2 /\ upd.data[3] = "summary"
             THEN Reported(s, "report", None, "weekly_summary", target_user_id, None, None)
             ELSE Reported(s, "report", None, "week", target_user_id, None, None)
        ELSE IF report_type = "custom" THEN show_custom_date_selection(s, u, upd)
        ELSE IF report_type = "productivity"
        THEN Reported(s, "report", None, "productivity", target_user_id, None, None)
        ELSE Ok(s, "unknown_report", None)

\* faulty variant: the export ignores admin_target_user_id
export_own_csv(s, u, upd) == Reported(s, "csv_sent", None, "csv", u, None, None)

export_user_csv(s, u, upd) ==
    Reported(s, "csv_sent", None, "csv", Get(ctx(s, u), "admin_target_user_id", u), None, None)

\* faulty variant: the first selection stores nothing
keep_start_phase(s, u, date) == s

\* the first selection: the start date and its display form are stored
select_start_date(s, u, date) ==
    SetCtx(SetCtx(s, u, "report_start_date", date), u, "report_start_date_formatted", date)

\* faulty variant: the length of the period is not limited
validate_range_unlimited(start_date, date) ==
    IF ~ValidDate(start_date) \/ ~ValidDate(date) THEN "date_error"
    ELSE IF DateLess(date, start_date) THEN "end_before_start"
    ELSE "ok"

\* faulty variant: every end date is accepted
validate_range_accept_all(start_date, date) == "ok"

\* the validation of the end date against the stored start date: "ok" or the
\* notice of the rejection
validate_range(start_date, date) ==
    IF ~ValidDate(start_date) \/ ~ValidDate(date) THEN "date_error"
    ELSE IF DateLess(date, start_date) THEN "end_before_start"
    ELSE IF DayNumber(date) - DayNumber(start_date) > 365 THEN "period_too_long"
    ELSE "ok"

handle_report_calendar(s, u, upd) ==
    LET data == upd.data IN
    IF data = <<"report", "cal", "ignore">> THEN Ok(s, "no_reply", None)
    ELSE IF StartsWith(data, <<"report", "cal", "prev">>) \/ StartsWith(data, <<"report", "cal", "next">>)
    THEN IF Len(data) < 5 \/ data[4] \notin IntStrings \/ data[5] \notin IntStrings THEN Raise(s)
         ELSE LET target == calendar_target(data[3], py_int(data[4]), py_int(data[5]))
                  year == target[1]
                  month == target[2]
              IN  IF year < s.today[1] - 2 \/ year > s.today[1] + 1
                  THEN Ok(s, "period_unavailable", None)
                  ELSE IF month \notin 1..12 THEN Raise(s)
                  ELSE IF Has(ctx(s, u), "report_start_date")
                  THEN Ok(s, "report_calendar_end", None)
                  ELSE Ok(s, "report_calendar_start", None)
    ELSE IF StartsWith(data, <<"report", "cal", "select">>)
    THEN IF Len(data) < 6 \/ data[4] \notin IntStrings \/ data[5] \notin IntStrings
            \/ data[6] \notin IntStrings
         THEN Raise(s)
         ELSE LET date == <<py_int(data[4]), py_int(data[5]), py_int(data[6])>> IN
              IF ~Has(ctx(s, u), "report_start_date")
              THEN LET s1 == select_start_date(s, u, date)
                   IN  IF date[2] \notin 1..12 THEN Raise(s1)
                       ELSE Ok(s1, "report_calendar_end", None)
              ELSE LET start_date == ctx(s, u)["report_start_date"] IN
                   IF ~Has(ctx(s, u), "report_start_date_formatted") THEN Raise(s)
                   ELSE IF validate_range(start_date, date) # "ok"
                   THEN Ok(s, validate_range(start_date, date), None)
                   ELSE Reported([s EXCEPT !.user_data[u] =
                                      Pop(Pop(@, "report_start_date"), "report_start_date_formatted")],
                                 "report", None, "custom",
                                 Get(ctx(s, u), "admin_target_user_id", u), start_date, date)
    ELSE Ok(s, "no_reply", None)

(***************************************************************************)
(* Administration.                                                         *)
(***************************************************************************)
\* the callback data of the four buttons of the admin menu
get_admin_keyboard ==
    <<<<<<"admin", "users">>, <<"admin", "projects">>>>,
      <<<<"admin", "stats">>, <<"admin", "export">>>>>>

show_admin_menu(s, u, upd) ==
    IF ~is_admin(s, u) THEN Ok(s, "access_denied", None)
    ELSE Ok(s, "admin_menu", None)

\* project_id comes from handle_admin (admin_delete_project_<id>) or, when
\* has_id is FALSE, from the token confirm_delete_project_<id>
confirm_delete_project(s, u, upd, has_id, id) ==
    IF ~has_id /\ (Len(upd.data) < 4 \/ upd.data[4] \notin IntStrings) THEN Raise(s)
    ELSE LET project_id == IF has_id THEN id ELSE py_int(upd.data[4]) IN
         IF ~is_admin(s, u) THEN Ok(s, "access_denied", None)
         ELSE IF project_id \notin DOMAIN s.projects THEN Ok(s, "project_not_found", None)
         ELSE Ok(s, "confirm_delete_project", None)

confirm_ban_user(s, u, upd, user_id) ==
    IF ~is_admin(s, u) THEN Ok(s, "access_denied", None)
    ELSE IF user_id \notin DOMAIN s.users THEN Ok(s, "user_not_found", None)
    ELSE Ok(s, "confirm_ban", None)

\* DELETE FROM time_entries WHERE project_id, then DELETE FROM projects, in one
\* transaction; a database error rolls both back and is caught
\* faulty variant: the project row is deleted and its time entries are left
delete_project_only(s, u, upd) ==
    IF Len(upd.data) < 4 \/ upd.data[4] \notin IntStrings THEN Raise(s)
    ELSE LET project_id == py_int(upd.data[4]) IN
         IF ~is_admin(s, u) THEN Ok(s, "access_denied", None)
         ELSE IF ~upd.db_ok THEN Ok(s, "delete_error", None)
         ELSE IF project_id \in DOMAIN s.projects
         THEN Ok([s EXCEPT !.projects = Pop(@, project_id)], "project_deleted", None)
         ELSE Ok(s, "delete_error", None)

delete_project(s, u, upd) ==
    IF Len(upd.data) < 4 \/ upd.data[4] \notin IntStrings THEN Raise(s)
    ELSE LET project_id == py_int(upd.data[4]) IN
         IF ~is_admin(s, u) THEN Ok(s, "access_denied", None)
         ELSE IF ~upd.db_ok THEN Ok(s, "delete_error", None)
         ELSE IF project_id \in DOMAIN s.projects
         THEN Ok([s EXCEPT !.time_entries = {e \in @ : e.project_id # project_id},
                           !.projects = Pop(@, project_id)],
                 "project_deleted", None)
         ELSE Ok(s, "delete_error", None)

handle_admin(s, u, upd) ==
    LET action == Tail(upd.data)
        Arg(i) == action[i]
        BadArg(i) == Len(action) < i \/ action[i] \notin IntStrings
    IN
    IF ~is_admin(s, u) THEN Ok(s, "access_denied", None)
    ELSE IF action = <<"users">> THEN Ok(s, "admin_users", None)
    ELSE IF action = <<"projects">> THEN Ok(s, "admin_projects", None)
    ELSE IF StartsWith(action, <<"projects", "page">>)
    THEN IF BadArg(3) THEN Raise(s) ELSE Ok(s, "admin_projects", None)
    ELSE IF action = <<"stats">> THEN Ok(s, "admin_stats", None)
    ELSE IF StartsWith(action, <<"user", "stats">>)
    THEN IF BadArg(3) THEN Raise(s) ELSE show_user_reports_menu(s, u, upd, py_int(Arg(3)))
    ELSE IF StartsWith(action, <<"user", "reports">>)
    THEN IF BadArg(3) THEN Raise(s) ELSE show_user_reports_menu(s, u, upd, py_int(Arg(3)))
    ELSE IF StartsWith(action, <<"user">>)
    THEN IF BadArg(2) THEN Raise(s) ELSE Ok(s, "admin_user", None)
    ELSE IF StartsWith(action, <<"project", "stats">>)
    THEN IF BadArg(3) THEN Raise(s) ELSE Ok(s, "admin_project", None)
    ELSE IF StartsWith(action, <<"project">>) /\ action[2] \in IntStrings
    THEN Ok(s, "admin_project", None)
    ELSE IF StartsWith(action, <<"toggle", "user">>)
    THEN IF BadArg(3) THEN Raise(s)
         ELSE Ok(toggle_user_admin(s, py_int(Arg(3))), "admin_user", None)
    ELSE IF StartsWith(action, <<"ban", "user">>)
    THEN IF BadArg(3) THEN Raise(s) ELSE confirm_ban_user(s, u, upd, py_int(Arg(3)))
    ELSE IF StartsWith(action, <<"confirm", "ban", "user">>)
    THEN IF BadArg(4) THEN Raise(s)
         ELSE Ok(ban_user(s, py_int(Arg(4))), "admin_user", None)
    ELSE IF StartsWith(action, <<"unban", "user">>)
    THEN IF BadArg(3) THEN Raise(s)
         ELSE Ok(unban_user(s, py_int(Arg(3))), "admin_user", None)
    ELSE IF StartsWith(action, <<"toggle", "project">>)
    THEN IF BadArg(3) THEN Raise(s)
         ELSE Ok(toggle_project_status(s, py_int(Arg(3))), "admin_project", None)
    ELSE IF StartsWith(action, <<"delete", "project">>)
    THEN IF BadArg(3) THEN Raise(s)
         ELSE confirm_delete_project(s, u, upd, TRUE, py_int(Arg(3)))
    ELSE IF action = <<"add", "project">>
    THEN Ok(SetCtx(s, u, "admin_action", "add_project"), "project_name_prompt",
            ENTERING_DESCRIPTION)
    ELSE IF action \in {<<"basic", "stats">>, <<"team", "efficiency">>,
                        <<"project", "health">>, <<"team", "weekly">>}
    THEN Ok(s, "admin_report", None)
    ELSE Ok(s, "unknown_action", None)

(***************************************************************************)
(* The global dispatchers.                                                 *)
(***************************************************************************)
\* the branch of button_handler's if/elif chain that query.data takes
button_branch(data) ==
    IF data = <<"add", "hours">> THEN "start_add_hours"
    ELSE IF data = <<"my", "entries">> THEN "show_my_entries"
    ELSE IF data = <<"reports">> THEN "show_reports_menu"
    ELSE IF data = <<"help">> THEN "show_help"
    ELSE IF data = <<"admin", "menu">> THEN "show_admin_menu"
    ELSE IF StartsWith(data, <<"report", "cal">>) THEN "handle_report_calendar"
    ELSE IF StartsWith(data, <<"report">>) THEN "handle_report"
    ELSE IF StartsWith(data, <<"admin">>) THEN "handle_admin"
    ELSE IF data = <<"export", "csv">> THEN "export_user_csv"
    ELSE IF StartsWith(data, <<"project">>) THEN "select_project"
    ELSE IF StartsWith(data, <<"hours">>) THEN "select_hours"
    ELSE IF StartsWith(data, <<"date">>) THEN "select_date"
    ELSE IF data = <<"skip", "description">> THEN "skip_description"
    ELSE IF data = <<"back", "to", "main">> THEN "back_to_main"
    ELSE IF StartsWith(data, <<"delete", "entry", "from", "page">>)
    THEN "confirm_delete_entry_from_page"
    ELSE IF StartsWith(data, <<"confirm", "delete", "from", "page">>)
    THEN "delete_entry_from_page"
    ELSE IF StartsWith(data, <<"delete", "entry">>) THEN "confirm_delete_entry"
    ELSE IF StartsWith(data, <<"confirm", "delete">>) THEN "delete_entry"
    ELSE IF data = <<"delete", "menu">> THEN "show_delete_menu"
    ELSE IF StartsWith(data, <<"entries", "page">>) THEN "handle_entries_pagination"
    ELSE IF StartsWith(data, <<"delete", "entries", "page">>)
    THEN "show_delete_entries_from_page"
    ELSE IF StartsWith(data, <<"confirm", "delete", "project">>) THEN "confirm_delete_project"
    ELSE IF StartsWith(data, <<"final", "delete", "project">>) THEN "delete_project"
    ELSE IF StartsWith(data, <<"cal">>) THEN "handle_calendar"
    ELSE "none"

\* the call of the handler named h
Call(h, s, u, upd) ==
    CASE h = "start" -> start(s, u, upd)
      [] h = "show_help" -> show_help(s, u, upd)
      [] h = "start_add_hours" -> start_add_hours(s, u, upd)
      [] h = "select_project" -> select_project(s, u, upd)
      [] h = "select_hours" -> select_hours(s, u, upd)
      [] h = "handle_hours_input" -> handle_hours_input(s, u, upd)
      [] h = "skip_description" -> skip_description(s, u, upd)
      [] h = "handle_description_input" -> handle_description_input(s, u, upd)
      [] h = "select_date" -> select_date(s, u, upd)
      [] h = "handle_calendar" -> handle_calendar(s, u, upd)
      [] h = "handle_date_input" -> handle_date_input(s, u, upd)
      [] h = "back_to_main" -> back_to_main(s, u, upd)
      [] h = "show_my_entries" -> show_my_entries(s, u, upd)
      [] h = "show_reports_menu" -> show_reports_menu(s, u, upd)
      [] h = "show_admin_menu" -> show_admin_menu(s, u, upd)
      [] h = "handle_report_calendar" -> handle_report_calendar(s, u, upd)
      [] h = "handle_report" -> handle_report(s, u, upd)
      [] h = "handle_admin" -> handle_admin(s, u, upd)
      [] h = "export_user_csv" -> export_user_csv(s, u, upd)
      [] h = "confirm_delete_entry_from_page" -> confirm_delete_entry_from_page(s, u, upd)
      [] h = "delete_entry_from_page" -> delete_entry_from_page(s, u, upd)
      [] h = "confirm_delete_entry" -> confirm_delete_entry(s, u, upd)
      [] h = "delete_entry" -> delete_entry(s, u, upd)
      [] h = "show_delete_menu" -> show_delete_menu(s, u, upd)
      [] h = "handle_entries_pagination" -> handle_entries_pagination(s, u, upd)
      [] h = "show_delete_entries_from_page" -> show_delete_entries_from_page(s, u, upd)
      [] h = "confirm_delete_project" -> confirm_delete_project(s, u, upd, FALSE, 0)
      [] h = "delete_project" -> delete_project(s, u, upd)
      [] h = "none" -> Ok(s, "no_reply", None)

\* the ban check that opens button_handler
button_ban_check(s, u, upd) == ~StartsWith(upd.data, <<"admin">>) /\ check_user_ban(s, u)

button_handler(s, u, upd) ==
    IF button_ban_check(s, u, upd) THEN Ok(s, "ban_notice", None)
    ELSE Call(button_branch(upd.data), s, u, upd)

\* the branch of handle_text_message's if/elif chain
text_branch(s, u, text) ==
    IF Get(ctx(s, u), "admin_action", None) = "add_project" THEN "handle_description_input"
    ELSE IF text = TXT_ADD_HOURS THEN "start_add_hours"
    ELSE IF text = TXT_MY_ENTRIES THEN "show_my_entries"
    ELSE IF text = TXT_REPORTS THEN "show_reports_menu"
    ELSE IF text = TXT_HELP THEN "show_help"
    ELSE IF text = TXT_DELETE THEN "show_delete_menu"
    ELSE IF text = TXT_ADMIN THEN "show_admin_menu"
    ELSE "unknown_command"

handle_text_message(s, u, upd) ==
    IF check_user_ban(s, u) THEN Ok(s, "ban_notice", None)
    ELSE IF text_branch(s, u, upd.text) = "unknown_command" THEN Ok(s, "unknown_command", None)
    ELSE Call(text_branch(s, u, upd.text), s, u, upd)

(***************************************************************************)
(* The ConversationHandler add_hours_handler and the Application's handler *)
(* list of main(): the first handler that accepts the update handles it.   *)
(***************************************************************************)
IsCallback(upd) == upd.kind = "callback"

IsText(upd) == upd.kind = "text"

\* the handler of the conversation that accepts the update, or "none":
\* entry points without a conversation, else the state's handlers, then the fallbacks
conversation_handler(state, upd) ==
    IF state = IDLE
    THEN IF IsCallback(upd) /\ upd.data = <<"add", "hours">> THEN "start_add_hours"
         ELSE IF IsText(upd) /\ upd.text = TXT_ADD_HOURS THEN "start_add_hours"
         ELSE "none"
    ELSE IF state = SELECTING_PROJECT /\ IsCallback(upd) /\ StartsWith(upd.data, <<"project">>)
    THEN "select_project"
    ELSE IF state = ENTERING_HOURS /\ IsCallback(upd) /\ StartsWith(upd.data, <<"hours">>)
    THEN "select_hours"
    ELSE IF state = ENTERING_HOURS /\ IsText(upd) THEN "handle_hours_input"
    ELSE IF state = ENTERING_DESCRIPTION /\ IsCallback(upd) /\ upd.data = <<"skip", "description">>
    THEN "skip_description"
    ELSE IF state = ENTERING_DESCRIPTION /\ IsText(upd) THEN "handle_description_input"
    ELSE IF state = SELECTING_DATE /\ IsCallback(upd) /\ StartsWith(upd.data, <<"date">>)
    THEN "select_date"
    ELSE IF state = SELECTING_DATE /\ IsCallback(upd) /\ StartsWith(upd.data, <<"cal">>)
    THEN "handle_calendar"
    ELSE IF state = SELECTING_DATE /\ IsText(upd) THEN "handle_date_input"
    ELSE IF IsCallback(upd) /\ upd.data = <<"back", "to", "main">> THEN "back_to_main"
    ELSE "none"

\* the conversation state after a handler of the conversation returned
conversation_update(state, r) ==
    IF r.raised \/ r.ret = None THEN state
    ELSE IF r.ret = END THEN IDLE
    ELSE r.ret

\* the handler function that ends up running for the update
route(s, u, upd) ==
    IF upd.kind = "command"
    THEN (IF upd.text = "/start" THEN "start" ELSE IF upd.text = "/help" THEN "show_help" ELSE "none")
    ELSE IF conversation_handler(s.conversations[u], upd) # "none"
    THEN conversation_handler(s.conversations[u], upd)
    ELSE IF IsCallback(upd)
    THEN (IF button_ban_check(s, u, upd) THEN "button_handler" ELSE button_branch(upd.data))
    ELSE IF check_user_ban(s, u) \/ text_branch(s, u, upd.text) = "unknown_command"
    THEN "handle_text_message"
    ELSE text_branch(s, u, upd.text)

process_update(s, u, upd) ==
    IF upd.kind = "command"
    THEN Call(route(s, u, upd), s, u, upd)
    ELSE IF conversation_handler(s.conversations[u], upd) # "none"
    THEN LET r == Call(conversation_handler(s.conversations[u], upd), s, u, upd)
         IN  [r EXCEPT !.S.conversations[u] = conversation_update(@, r)]
    ELSE IF IsCallback(upd) THEN button_handler(s, u, upd)
    ELSE handle_text_message(s, u, upd)

(***************************************************************************)
(* The inbound updates of the model.                                       *)
(***************************************************************************)
Callback(data) == [kind |-> "callback", data |-> data, text |-> "", db_ok |-> TRUE]

Text(text) == [kind |-> "text", data |-> <<>>, text |-> text, db_ok |-> TRUE]

Command(text) == [kind |-> "command", data |-> <<>>, text |-> text, db_ok |-> TRUE]

DbFails(upd) == [upd EXCEPT !.db_ok = FALSE]

ProjectIds == 1..MaxProjectId

EntryIds == 1..MaxEntryId

IdString(n) ==
    CASE n = 0 -> "0" [] n = 1 -> "1" [] n = 2 -> "2" [] n = 3 -> "3" [] OTHER -> "9"

\* the keyboard start_add_hours renders: one token per active project
project_keyboard(s) == {<<"project", IdString(p)>> : p \in get_projects(s)}

\* faulty variant: cancel leads to the first page
confirm_delete_keyboard_first_page(entry_id, page) ==
    [confirm |-> <<"confirm", "delete", "from", "page", IdString(entry_id), IdString(page)>>,
     cancel |-> <<"delete", "entries", "page", "0">>]

\* the keyboard confirm_delete_entry_from_page renders under the confirmation
confirm_delete_keyboard(entry_id, page) ==
    [confirm |-> <<"confirm", "delete", "from", "page", IdString(entry_id), IdString(page)>>,
     cancel |-> <<"delete", "entries", "page", IdString(page)>>]

\* the user whose wizard the model drives; the other user is the administrator
Member == CHOOSE u \in Users : u # ADMIN_USER_ID

\* the callback tokens of the add-entry wizard's own steps
WizardToken(upd) ==
    /\ IsCallback(upd)
    /\ \/ upd.data \in {<<"add", "hours">>, <<"skip", "description">>}
       \/ StartsWith(upd.data, <<"project">>)
       \/ StartsWith(upd.data, <<"hours">>)
       \/ StartsWith(upd.data, <<"date">>)
       \/ StartsWith(upd.data, <<"cal">>)

\* the ConversationHandler has a handler for the update in the user's state:
\* the (state, event) pairs of the wizard's transition table
Listed(s, u, upd) == conversation_handler(s.conversations[u], upd) # "none"

(***************************************************************************)
(* The state machine.                                                      *)
(***************************************************************************)
S == [users |-> users, projects |-> projects, next_project_id |-> next_project_id,
      time_entries |-> time_entries, next_entry_id |-> next_entry_id,
      conversations |-> conversations, user_data |-> user_data, today |-> today]

\* both users are registered; the administrator logged one entry the day before
Init ==
    /\ users = [u \in Users |-> [is_admin |-> FALSE, is_banned |-> FALSE]]
    /\ projects = (1 :> [name |-> "Dev", is_active |-> TRUE])
    /\ next_project_id = 2
    /\ time_entries = {[id |-> 1, user_id |-> ADMIN_USER_ID, project_id |-> 1, hours |-> 100,
                        description |-> None, date |-> yesterday(FirstDay)]}
    /\ next_entry_id = 2
    /\ conversations = [u \in Users |-> IDLE]
    /\ user_data = [u \in Users |-> EmptyDict]
    /\ today = FirstDay

Commit(s) ==
    /\ users' = s.users
    /\ projects' = s.projects
    /\ next_project_id' = s.next_project_id
    /\ time_entries' = s.time_entries
    /\ next_entry_id' = s.next_entry_id
    /\ conversations' = s.conversations
    /\ user_data' = s.user_data
    /\ today' = s.today

WithinBounds(s) ==
    /\ s.next_entry_id <= MaxEntryId + 1
    /\ s.next_project_id <= MaxProjectId + 1

\* user u sends update upd, the handler named h runs, and the stores stay
\* within the explored sizes
Fires(h, u, upd) ==
    /\ route(S, u, upd) = h
    /\ WithinBounds(process_update(S, u, upd).S)

\* the same, as a valid transition: a token of the wizard is sent only in a
\* state whose handlers take it
FiresValid(h, u, upd) ==
    /\ WizardToken(upd) => Listed(S, u, upd)
    /\ Fires(h, u, upd)

\* midnight passes
Tick ==
    /\ today[3] < FirstDay[3] + MaxTicks
    /\ today' = <<today[1], today[2], today[3] + 1>>
    /\ UNCHANGED <<users, projects, next_project_id, time_entries, next_entry_id,
                   conversations, user_data>>

(***************************************************************************)
(* Spec: the member runs the wizard, replays its tokens in every state and *)
(* deletes entries, while the administrator bans and unbans the member,    *)
(* grants and revokes its admin flag and manages the project.              *)
(***************************************************************************)
MemberTokens ==
    {<<"add", "hours">>, <<"project", "1">>, <<"hours", "2">>, <<"skip", "description">>,
     <<"date", "2024-06-15">>, <<"back", "to", "main">>, <<"confirm", "delete", "1">>,
     <<"confirm", "delete", "2">>, <<"confirm", "delete", "from", "page", "2", "0">>}

AdminTokens ==
    {<<"admin", "confirm", "ban", "user", "2">>, <<"admin", "unban", "user", "2">>,
     <<"admin", "toggle", "user", "2">>, <<"admin", "toggle", "project", "1">>,
     <<"final", "delete", "project", "1">>}

Menu(u) ==
    IF u = Member THEN {Callback(d) : d \in MemberTokens} \cup {Text("1.5")}
    ELSE {Callback(d) : d \in AdminTokens}

StartAddHours == \E u \in Users : \E upd \in Menu(u) :
    /\ Fires("start_add_hours", u, upd)
    /\ Commit(process_update(S, u, upd).S)

SelectProject == \E u \in Users : \E upd \in Menu(u) :
    /\ Fires("select_project", u, upd)
    /\ Commit(process_update(S, u, upd).S)

SelectHours == \E u \in Users : \E upd \in Menu(u) :
    /\ Fires("select_hours", u, upd)
    /\ Commit(process_update(S, u, upd).S)

HandleHoursInput == \E u \in Users : \E upd \in Menu(u) :
    /\ Fires("handle_hours_input", u, upd)
    /\ Commit(process_update(S, u, upd).S)

SkipDescription == \E u \in Users : \E upd \in Menu(u) :
    /\ Fires("skip_description", u, upd)
    /\ Commit(process_update(S, u, upd).S)

HandleDescriptionInput ==
    \E u \in Users : \E upd \in Menu(u) :
    /\ Fires("handle_description_input", u, upd)
    /\ Commit(process_update(S, u, upd).S)

SelectDate == \E u \in Users : \E upd \in Menu(u) :
    /\ Fires("select_date", u, upd)
    /\ Commit(process_update(S, u, upd).S)

BackToMain == \E u \in Users : \E upd \in Menu(u) :
    /\ Fires("back_to_main", u, upd)
    /\ Commit(process_update(S, u, upd).S)

DeleteEntry == \E u \in Users : \E upd \in Menu(u) :
    /\ Fires("delete_entry", u, upd)
    /\ Commit(process_update(S, u, upd).S)

DeleteEntryFromPage ==
    \E u \in Users : \E upd \in Menu(u) :
    /\ Fires("delete_entry_from_page", u, upd)
    /\ Commit(process_update(S, u, upd).S)

HandleAdmin == \E u \in Users : \E upd \in Menu(u) :
    /\ Fires("handle_admin", u, upd)
    /\ Commit(process_update(S, u, upd).S)

DeleteProject == \E u \in Users : \E upd \in Menu(u) :
    /\ Fires("delete_project", u, upd)
    /\ Commit(process_update(S, u, upd).S)

Next ==
    \/ StartAddHours
    \/ SelectProject
    \/ SelectHours
    \/ HandleHoursInput
    \/ SkipDescription
    \/ HandleDescriptionInput
    \/ SelectDate
    \/ BackToMain
    \/ DeleteEntry
    \/ DeleteEntryFromPage
    \/ HandleAdmin
    \/ DeleteProject
    \/ Tick

Spec == Init /\ [][Next]_vars

(***************************************************************************)
(* SpecReports (valid transitions): both users select custom ranges; the   *)
(* administrator opens the member's reports, grants and revokes the        *)
(* member's admin flag and starts a project creation; the member, while    *)
(* admin, does the same; contexts are cleared by back_to_main, by the      *)
(* project-name capture and by a wizard commit.                            *)
(***************************************************************************)
ReportTokens ==
    {<<"report", "cal", "select", "2024", "6", "14">>,
     <<"report", "cal", "select", "2024", "6", "15">>, <<"back", "to", "main">>}

ReportsMenu(u) ==
    IF u = Member
    THEN {Callback(d) : d \in ReportTokens \cup {<<"admin", "user", "reports", "1">>,
                                                 <<"add", "hours">>, <<"project", "1">>,
                                                 <<"hours", "2">>, <<"date", "2024-06-15">>}}
         \cup {Text("x")}
    ELSE {Callback(d) : d \in ReportTokens \cup {<<"admin", "user", "reports", "2">>,
                                                 <<"admin", "toggle", "user", "2">>,
                                                 <<"admin", "add", "project">>}}
         \cup {Text("x")}

R_HandleAdmin == \E u \in Users : \E upd \in ReportsMenu(u) :
    /\ FiresValid("handle_admin", u, upd)
    /\ Commit(process_update(S, u, upd).S)

R_HandleReportCalendar ==
    \E u \in Users : \E upd \in ReportsMenu(u) :
    /\ FiresValid("handle_report_calendar", u, upd)
    /\ Commit(process_update(S, u, upd).S)

R_BackToMain == \E u \in Users : \E upd \in ReportsMenu(u) :
    /\ FiresValid("back_to_main", u, upd)
    /\ Commit(process_update(S, u, upd).S)

R_HandleDescriptionInput ==
    \E u \in Users : \E upd \in ReportsMenu(u) :
    /\ FiresValid("handle_description_input", u, upd)
    /\ Commit(process_update(S, u, upd).S)

R_StartAddHours == \E u \in Users : \E upd \in ReportsMenu(u) :
    /\ FiresValid("start_add_hours", u, upd)
    /\ Commit(process_update(S, u, upd).S)

R_SelectProject == \E u \in Users : \E upd \in ReportsMenu(u) :
    /\ FiresValid("select_project", u, upd)
    /\ Commit(process_update(S, u, upd).S)

R_SelectHours == \E u \in Users : \E upd \in ReportsMenu(u) :
    /\ FiresValid("select_hours", u, upd)
    /\ Commit(process_update(S, u, upd).S)

R_HandleHoursInput ==
    \E u \in Users : \E upd \in ReportsMenu(u) :
    /\ FiresValid("handle_hours_input", u, upd)
    /\ Commit(process_update(S, u, upd).S)

R_SelectDate == \E u \in Users : \E upd \in ReportsMenu(u) :
    /\ FiresValid("select_date", u, upd)
    /\ Commit(process_update(S, u, upd).S)

NextReports ==
    \/ R_HandleAdmin
    \/ R_HandleReportCalendar
    \/ R_BackToMain
    \/ R_HandleDescriptionInput
    \/ R_StartAddHours
    \/ R_SelectProject
    \/ R_SelectHours
    \/ R_HandleHoursInput
    \/ R_SelectDate

SpecReports == Init /\ [][NextReports]_vars

(***************************************************************************)
(* SpecValid: only valid transitions. A token of the wizard is sent only   *)
(* in a state whose handlers take it; free text, back_to_main and the      *)
(* administration are sent in every state.                                 *)
(***************************************************************************)
ValidTokens ==
    {<<"add", "hours">>, <<"project", "1">>, <<"hours", "2">>, <<"hours", "custom">>,
     <<"skip", "description">>, <<"date", "2024-06-15">>, <<"date", "custom">>,
     <<"cal", "select", "2024", "6", "15">>, <<"back", "to", "main">>,
     <<"admin", "add", "project">>}

ValidMenu(u) ==
    IF u = Member
    THEN {Callback(d) : d \in ValidTokens} \cup {Text("x"), Text("2")}
    ELSE {Callback(d) : d \in {<<"admin", "confirm", "ban", "user", "2">>,
                               <<"admin", "unban", "user", "2">>,
                               <<"admin", "toggle", "user", "2">>,
                               <<"admin", "toggle", "project", "1">>}}

V_StartAddHours ==
    \E u \in Users : \E upd \in ValidMenu(u) :
    /\ FiresValid("start_add_hours", u, upd)
    /\ Commit(process_update(S, u, upd).S)

V_SelectProject ==
    \E u \in Users : \E upd \in ValidMenu(u) :
    /\ FiresValid("select_project", u, upd)
    /\ Commit(process_update(S, u, upd).S)

V_SelectHours ==
    \E u \in Users : \E upd \in ValidMenu(u) :
    /\ FiresValid("select_hours", u, upd)
    /\ Commit(process_update(S, u, upd).S)

V_HandleHoursInput ==
    \E u \in Users : \E upd \in ValidMenu(u) :
    /\ FiresValid("handle_hours_input", u, upd)
    /\ Commit(process_update(S, u, upd).S)

V_SkipDescription ==
    \E u \in Users : \E upd \in ValidMenu(u) :
    /\ FiresValid("skip_description", u, upd)
    /\ Commit(process_update(S, u, upd).S)

V_HandleDescriptionInput ==
    \E u \in Users : \E upd \in ValidMenu(u) :
    /\ FiresValid("handle_description_input", u, upd)
    /\ Commit(process_update(S, u, upd).S)

V_SelectDate ==
    \E u \in Users : \E upd \in ValidMenu(u) :
    /\ FiresValid("select_date", u, upd)
    /\ Commit(process_update(S, u, upd).S)

V_HandleCalendar ==
    \E u \in Users : \E upd \in ValidMenu(u) :
    /\ FiresValid("handle_calendar", u, upd)
    /\ Commit(process_update(S, u, upd).S)

V_HandleDateInput ==
    \E u \in Users : \E upd \in ValidMenu(u) :
    /\ FiresValid("handle_date_input", u, upd)
    /\ Commit(process_update(S, u, upd).S)

V_BackToMain ==
    \E u \in Users : \E upd \in ValidMenu(u) :
    /\ FiresValid("back_to_main", u, upd)
    /\ Commit(process_update(S, u, upd).S)

V_HandleAdmin ==
    \E u \in Users : \E upd \in ValidMenu(u) :
    /\ FiresValid("handle_admin", u, upd)
    /\ Commit(process_update(S, u, upd).S)

V_HandleTextMessage ==
    \E u \in Users : \E upd \in ValidMenu(u) :
    /\ FiresValid("handle_text_message", u, upd)
    /\ Commit(process_update(S, u, upd).S)

NextValid ==
    \/ V_StartAddHours
    \/ V_SelectProject
    \/ V_SelectHours
    \/ V_HandleHoursInput
    \/ V_SkipDescription
    \/ V_HandleDescriptionInput
    \/ V_SelectDate
    \/ V_HandleCalendar
    \/ V_HandleDateInput
    \/ V_BackToMain
    \/ V_HandleAdmin
    \/ V_HandleTextMessage

SpecValid == Init /\ [][NextValid]_vars

(***************************************************************************)
(* SpecRun: the member answers every prompt of the wizard from the prompt's *)
(* own keyboard, or with a valid number or text where one is asked for,    *)
(* and starts a run only while the explored store has room for its entry;  *)
(* the administrator bans and unbans the member and grants and revokes its *)
(* admin flag. The member does not stay at one prompt forever: the steps   *)
(* that leave the current wizard state are weakly fair.                    *)
(***************************************************************************)
\* the "today" and "yesterday" presets show_date_selection renders, and a day
\* of the calendar
DateTokens(s) ==
    {<<"date", strftime(s.today)>>, <<"date", strftime(yesterday(s.today))>>,
     <<"cal", "select", "2024", "6", "15">>}

\* every update a user of SpecRun sends at some point of a run
RunTokens(u) ==
    IF u # Member
    THEN {Callback(d) : d \in {<<"admin", "confirm", "ban", "user", "2">>,
                               <<"admin", "unban", "user", "2">>,
                               <<"admin", "toggle", "user", "2">>}}
    ELSE {Callback(d) : d \in {<<"add", "hours">>, <<"project", "1">>, <<"project", "2">>,
                               <<"hours", "0.5">>, <<"hours", "1">>, <<"hours", "2">>,
                               <<"hours", "4">>, <<"hours", "custom">>,
                               <<"skip", "description">>, <<"date", "2024-06-14">>,
                               <<"date", "2024-06-15">>, <<"date", "custom">>,
                               <<"cal", "ignore">>, <<"cal", "prev", "2024", "6">>,
                               <<"cal", "next", "2024", "6">>,
                               <<"cal", "select", "2024", "6", "10">>,
                               <<"cal", "select", "2024", "6", "15">>}}
         \cup {Text(TXT_ADD_HOURS), Text("2"), Text("1,5"), Text("x")}

\* what the render the user is looking at offers, and the texts it asks for
RunMenu(u) ==
    IF u # Member
    THEN {Callback(d) : d \in {<<"admin", "confirm", "ban", "user", "2">>,
                               <<"admin", "unban", "user", "2">>,
                               <<"admin", "toggle", "user", "2">>}}
    ELSE CASE conversations[u] = IDLE ->
                  IF next_entry_id <= MaxEntryId
                  THEN {Callback(<<"add", "hours">>), Text(TXT_ADD_HOURS)}
                  ELSE {}
           [] conversations[u] = SELECTING_PROJECT ->
                  {Callback(d) : d \in project_keyboard(S)}
           [] conversations[u] = ENTERING_HOURS ->
                  {Callback(<<"hours", h>>) : h \in {"0.5", "1", "2", "4", "custom"}}
                  \cup {Text("2"), Text("1,5")}
           [] conversations[u] = ENTERING_DESCRIPTION ->
                  {Callback(<<"skip", "description">>), Text("x")}
           [] conversations[u] = SELECTING_DATE ->
                  {Callback(d) : d \in DateTokens(S)
                                     \cup {<<"date", "custom">>, <<"cal", "ignore">>,
                                           <<"cal", "prev", "2024", "6">>,
                                           <<"cal", "next", "2024", "6">>,
                                           <<"cal", "select", "2024", "6", "10">>}}

W_StartAddHours ==
    \E u \in Users : \E upd \in RunTokens(u) :
    /\ upd \in RunMenu(u)
    /\ Fires("start_add_hours", u, upd)
    /\ Commit(process_update(S, u, upd).S)

W_SelectProject ==
    \E u \in Users : \E upd \in RunTokens(u) :
    /\ upd \in RunMenu(u)
    /\ Fires("select_project", u, upd)
    /\ Commit(process_update(S, u, upd).S)

W_SelectHours ==
    \E u \in Users : \E upd \in RunTokens(u) :
    /\ upd \in RunMenu(u)
    /\ Fires("select_hours", u, upd)
    /\ Commit(process_update(S, u, upd).S)

W_HandleHoursInput ==
    \E u \in Users : \E upd \in RunTokens(u) :
    /\ upd \in RunMenu(u)
    /\ Fires("handle_hours_input", u, upd)
    /\ Commit(process_update(S, u, upd).S)

W_SkipDescription ==
    \E u \in Users : \E upd \in RunTokens(u) :
    /\ upd \in RunMenu(u)
    /\ Fires("skip_description", u, upd)
    /\ Commit(process_update(S, u, upd).S)

W_HandleDescriptionInput ==
    \E u \in Users : \E upd \in RunTokens(u) :
    /\ upd \in RunMenu(u)
    /\ Fires("handle_description_input", u, upd)
    /\ Commit(process_update(S, u, upd).S)

W_SelectDate ==
    \E u \in Users : \E upd \in RunTokens(u) :
    /\ upd \in RunMenu(u)
    /\ Fires("select_date", u, upd)
    /\ Commit(process_update(S, u, upd).S)

W_HandleCalendar ==
    \E u \in Users : \E upd \in RunTokens(u) :
    /\ upd \in RunMenu(u)
    /\ Fires("handle_calendar", u, upd)
    /\ Commit(process_update(S, u, upd).S)

W_HandleAdmin ==
    \E u \in Users : \E upd \in RunTokens(u) :
    /\ upd \in RunMenu(u)
    /\ Fires("handle_admin", u, upd)
    /\ Commit(process_update(S, u, upd).S)

NextRun ==
    \/ W_StartAddHours
    \/ W_SelectProject
    \/ W_SelectHours
    \/ W_HandleHoursInput
    \/ W_SkipDescription
    \/ W_HandleDescriptionInput
    \/ W_SelectDate
    \/ W_HandleCalendar
    \/ W_HandleAdmin

\* the steps of user u that leave the wizard state u is in
RunAdvance(u) ==
    \E upd \in RunMenu(u) :
    /\ conversations[u] # IDLE
    /\ process_update(S, u, upd).S.conversations[u] # conversations[u]
    /\ WithinBounds(process_update(S, u, upd).S)
    /\ Commit(process_update(S, u, upd).S)

SpecRun == Init /\ [][NextRun]_vars /\ \A u \in Users : WF_vars(RunAdvance(u))

(***************************************************************************)
(* The updates the properties quantify over.                               *)
(***************************************************************************)
WizardUpdates ==
    {Callback(d) : d \in {<<"add", "hours">>, <<"project", "1">>, <<"project", "9">>,
                          <<"hours", "2">>, <<"hours", "0.5">>, <<"hours", "custom">>,
                          <<"skip", "description">>, <<"date", "2024-06-15">>,
                          <<"date", "2024-06-16">>, <<"date", "custom">>,
                          <<"cal", "select", "2024", "6", "15">>, <<"cal", "prev", "2024", "6">>,
                          <<"cal", "ignore">>, <<"back", "to", "main">>}}
    \cup {Text("x"), Text("1.5"), Text(TXT_ADD_HOURS)}

BrowsingUpdates ==
    {Callback(d) : d \in {<<"my", "entries">>, <<"reports">>, <<"report", "today">>,
                          <<"delete", "menu">>, <<"export", "csv">>}}
    \cup {Text(TXT_MY_ENTRIES), Command("/start")}

\* the tokens that confirm the deletion of the entry id
ConfirmTokens(id) ==
    {<<"confirm", "delete", IdString(id)>>,
     <<"confirm", "delete", "from", "page", IdString(id), "0">>}

DeleteUpdates ==
    {Callback(d) : d \in UNION {ConfirmTokens(id) : id \in 1..(MaxEntryId + 1)}}
    \cup {Callback(<<"final", "delete", "project", IdString(p)>>) : p \in ProjectIds}
    \cup {DbFails(Callback(<<"confirm", "delete", "1">>))}

\* the admin transitions: the admin_ tokens, the confirmation and the final
\* step of a project's deletion
AdminTransitions ==
    {Callback(d) : d \in {<<"admin", "menu">>, <<"admin", "users">>, <<"admin", "projects">>,
                          <<"admin", "add", "project">>, <<"admin", "user", "reports", "1">>,
                          <<"admin", "toggle", "user", "1">>, <<"admin", "toggle", "user", "2">>,
                          <<"admin", "confirm", "ban", "user", "1">>,
                          <<"admin", "unban", "user", "2">>,
                          <<"admin", "toggle", "project", "1">>,
                          <<"admin", "delete", "project", "1">>,
                          <<"confirm", "delete", "project", "1">>,
                          <<"final", "delete", "project", "1">>}}

(***************************************************************************)
(* C1. Along valid transitions the wizard is in ENTERING_DESCRIPTION or    *)
(* SELECTING_DATE only with selected_project_id and selected_hours set.    *)
(***************************************************************************)
\* C1: under SpecValid (every wizard token is sent only in a state whose
\* handlers take it), a user whose wizard is in ENTERING_DESCRIPTION or
\* SELECTING_DATE has selected_project_id and selected_hours in the context
C1_FieldsSetBeforeDescription ==
    \A u \in Users :
        conversations[u] \in {ENTERING_DESCRIPTION, SELECTING_DATE}
            => /\ Has(user_data[u], "selected_project_id")
               /\ Has(user_data[u], "selected_hours")

\* the member reached SELECTING_DATE through a typed description
C1_Witness ==
    /\ conversations[Member] = SELECTING_DATE
    /\ Has(user_data[Member], "selected_project_id")
    /\ Has(user_data[Member], "selected_hours")
    /\ Get(user_data[Member], "description", None) = "x"

(***************************************************************************)
(* C2. Round trip of one wizard run.                                       *)
(***************************************************************************)
\* the five updates of one run: start, project P, preset 2, description "x",
\* the preset "today"
WizardRun(s, P) ==
    <<Callback(<<"add", "hours">>), Callback(<<"project", IdString(P)>>),
      Callback(<<"hours", "2">>), Text("x"), Callback(<<"date", strftime(s.today)>>)>>

RECURSIVE RunFrom(_, _, _, _)
\* the result of the i-th update of the sequence, the earlier ones applied first
RunFrom(s, u, updates, i) ==
    IF i = 1 THEN process_update(s, u, updates[1])
    ELSE process_update(RunFrom(s, u, updates, i - 1).S, u, updates[i])

C3_CommitFailureCaught ==
    \A u \in Users :
        conversations[u] = SELECTING_DATE
            => \A d \in DateTokens(S) :
                   LET r == process_update(S, u, DbFails(Callback(d)))
                   IN  /\ ~r.raised
                       /\ r.reply # "no_reply"
                       /\ r.S.time_entries = time_entries
                       /\ r.S.conversations[u] = IDLE
                       /\ r.S.user_data[u] = EmptyDict

(***************************************************************************)
(* C4. The ban is enforced in every state.                                 *)
(***************************************************************************)
\* C4: every update that is no admin action, sent by a user who is banned,
\* in any state, gives the ban notice, leaves the wizard in IDLE with an
\* empty context, and stores nothing
C4_BanEnforced ==
    \A u \in Users :
        is_banned(S, u)
            => \A upd \in WizardUpdates \cup BrowsingUpdates :
                   LET r == process_update(S, u, upd)
                   IN  /\ r.reply = "ban_notice"
                       /\ r.S.conversations[u] = IDLE
                       /\ r.S.user_data[u] = EmptyDict
                       /\ r.S.time_entries = time_entries

(***************************************************************************)
(* C5. Only the owner's confirmation removes an entry.                     *)
(***************************************************************************)
\* C5: a confirm token for an entry of another user removes no row, and every
\* row an update removes is either owned by the sender, who sent a confirm
\* token naming its id, or belongs to a project whose final deletion the
\* sender, an admin, sent
C5_DeleteOwnership ==
    /\ \A e \in time_entries : \A u \in Users \ {e.user_id} : \A d \in ConfirmTokens(e.id) :
           process_update(S, u, Callback(d)).S.time_entries = time_entries
    /\ \A u \in Users : \A upd \in DeleteUpdates \cup WizardUpdates \cup AdminTransitions :
           \A e \in time_entries \ process_update(S, u, upd).S.time_entries :
               \/ e.user_id = u /\ upd.data \in ConfirmTokens(e.id)
               \/ /\ is_admin(S, u)
                  /\ upd.data = <<"final", "delete", "project", IdString(e.project_id)>>

\* the member deleted its own entry while the administrator's entry, whose
\* confirm token the member sends too, is still stored
C5_Witness ==
    /\ next_entry_id = 3
    /\ \E e \in time_entries : e.id = 1 /\ e.user_id = ADMIN_USER_ID
    /\ ~\E e \in time_entries : e.id = 2
    /\ 1 \in DOMAIN projects

(***************************************************************************)
(* C6. back_to_main is idempotent and leaves nothing for the next run.     *)
(***************************************************************************)
\* C6: in every state back_to_main empties the sender's context and leaves
\* the wizard in IDLE, a second back_to_main changes nothing more, and a
\* following start (user not banned, an active project exists) begins at
\* SELECTING_PROJECT with an empty context
C6_BackToMainClears ==
    \A u \in Users :
        LET back == Callback(<<"back", "to", "main">>)
            r1 == process_update(S, u, back)
            r2 == process_update(r1.S, u, back)
            r3 == process_update(r1.S, u, Callback(<<"add", "hours">>))
        IN  /\ r1.S.conversations[u] = IDLE
            /\ r1.S.user_data[u] = EmptyDict
            /\ r2.S = r1.S
            /\ (~is_banned(r1.S, u) /\ get_projects(r1.S) # {})
                   => /\ r3.S.conversations[u] = SELECTING_PROJECT
                      /\ r3.S.user_data[u] = EmptyDict

(***************************************************************************)
(* C7. A wizard token in a state that does not list it is a no-op.         *)
(***************************************************************************)
\* C7: a token of the wizard sent while the sender's wizard is in a state
\* whose handlers do not take it (hours_2 in SELECTING_DATE, project_1 in
\* ENTERING_HOURS) changes neither the wizard state, nor the context, nor the
\* stored rows
C7_UnlistedNoOp ==
    \A u \in Users : \A upd \in WizardUpdates :
        (/\ conversations[u] \in WizardStates
         /\ WizardToken(upd)
         /\ ~Listed(S, u, upd))
        => process_update(S, u, upd).S = S

(***************************************************************************)
(* C8. Stale date tokens are ignored.                                      *)
(***************************************************************************)
\* C8: a date preset or a calendar day sent while the sender's wizard is not
\* in SELECTING_DATE stores no entry and leaves the context as it was
C8_StaleDateIgnored ==
    \A u \in Users :
        conversations[u] # SELECTING_DATE
            => \A d \in DateTokens(S) :
                   LET r == process_update(S, u, Callback(d))
                   IN  /\ r.S.time_entries = time_entries
                       /\ r.S.user_data[u] = user_data[u]

(***************************************************************************)
(* C9. Admin impersonation in the report sub-flows.                        *)
(***************************************************************************)
\* the subject of a report: the target while admin_target_user_id is set,
\* else the sender
Subject(s, u) ==
    IF Has(ctx(s, u), "admin_target_user_id") THEN ctx(s, u)["admin_target_user_id"] ELSE u

\* the collaborator call each report token makes
ReportKinds ==
    {<<<<"report", "today">>, "today">>, <<<<"report", "week">>, "week">>,
     <<<<"report", "projects">>, "projects">>,
     <<<<"report", "weekly", "summary">>, "weekly_summary">>,
     <<<<"report", "productivity">>, "productivity">>, <<<<"export", "csv">>, "csv">>}

ImpersonationUpdates ==
    WizardUpdates
    \cup {Callback(k[1]) : k \in ReportKinds}
    \cup {Callback(d) : d \in {<<"report", "custom">>,
                               <<"report", "cal", "select", "2024", "6", "15">>,
                               <<"report", "cal", "select", "2024", "6", "14">>,
                               <<"reports">>, <<"admin", "menu">>, <<"admin", "users">>,
                               <<"admin", "user", "1">>, <<"admin", "user", "2">>,
                               <<"admin", "user", "stats", "2">>,
                               <<"admin", "user", "reports", "1">>,
                               <<"admin", "user", "reports", "2">>,
                               <<"admin", "toggle", "user", "2">>,
                               <<"admin", "add", "project">>}}

\* C9: every report and export call (today, week, projects, weekly summary,
\* productivity, CSV, custom range) has the target as subject while
\* admin_target_user_id is set and the sender otherwise; an update sets or
\* changes the field, and only in the sender's own context, only when the
\* sender is an admin and the update is the "user reports" navigation to that
\* user; and after back_to_main, a stored entry or a captured project name
\* the field is absent
C9_Impersonation ==
    \A u \in Users :
        /\ \A k \in ReportKinds :
               LET r == process_update(S, u, Callback(k[1]))
               IN  r.report = [kind |-> k[2], subject |-> Subject(S, u),
                               from |-> None, to |-> None]
        /\ Has(user_data[u], "report_start_date")
               => LET r == process_update(S, u, Callback(<<"report", "cal", "select",
                                                           "2024", "6", "15">>))
                  IN  /\ r.report.kind = "custom"
                      /\ r.report.subject = Subject(S, u)
                      /\ r.report.from = user_data[u]["report_start_date"]
                      /\ r.report.to = <<2024, 6, 15>>
        /\ \A upd \in ImpersonationUpdates :
               LET r == process_update(S, u, upd)
                   before == Get(ctx(S, u), "admin_target_user_id", 0)
                   after == Get(ctx(r.S, u), "admin_target_user_id", 0)
               IN  /\ (after # before /\ after # 0)
                       => /\ is_admin(S, u)
                          /\ upd.data \in {<<"admin", "user", "reports", IdString(after)>>,
                                           <<"admin", "user", "stats", IdString(after)>>}
                   /\ \A v \in Users \ {u} : r.S.user_data[v] = user_data[v]
                   /\ (\/ upd.data = <<"back", "to", "main">>
                       \/ r.reply \in {"entry_added", "project_created", "project_exists"})
                       => ~Has(ctx(r.S, u), "admin_target_user_id")

\* the administrator opened the member's reports and chose the first day of
\* a custom range
C9_Witness ==
    /\ Get(user_data[ADMIN_USER_ID], "admin_target_user_id", 0) = Member
    /\ Has(user_data[ADMIN_USER_ID], "report_start_date")

(***************************************************************************)
(* C10. Admin transitions sent by a user who is no admin.                  *)
(***************************************************************************)
\* C10: every admin_ token, project-deletion confirmation and final deletion
\* sent by a user who is not an admin is answered with the access-denied
\* notice and changes no row, no wizard state and no context
C10_NonAdminDenied ==
    \A u \in Users :
        ~is_admin(S, u)
            => \A upd \in AdminTransitions :
                   LET r == process_update(S, u, upd)
                   IN  r.reply = "access_denied" /\ r.S = S

(***************************************************************************)
(* C11. Tokens with a malformed or dangling argument.                      *)
(***************************************************************************)
\* tokens whose argument is not a number, is missing, or names an id that
\* does not exist in state s
MalformedUpdates(s) ==
    {Callback(d) : d \in {<<"project", "abc">>, <<"project", "">>, <<"hours", "abc">>,
                          <<"hours", "">>, <<"delete", "entry", "abc">>,
                          <<"confirm", "delete", "abc">>, <<"entries", "page", "abc">>,
                          <<"delete", "entries", "page", "">>,
                          <<"confirm", "delete", "from", "page", "abc", "0">>,
                          <<"cal", "select", "2024", "6">>,
                          <<"report", "cal", "select", "2024", "abc", "1">>}}
    \cup {Callback(<<"project", IdString(p)>>) :
              p \in (1..(MaxProjectId + 2)) \ DOMAIN s.projects}
    \cup {Callback(<<"delete", "entry", IdString(e)>>) :
              e \in (1..(MaxEntryId + 2)) \ {x.id : x \in s.time_entries}}
    \cup {Callback(<<"confirm", "delete", IdString(e)>>) :
              e \in (1..(MaxEntryId + 2)) \ {x.id : x \in s.time_entries}}

\* C11: for every token whose argument is non-numeric, missing or names a
\* project or entry that does not exist, sent by any user in any state, no
\* exception leaves the handler, no row is stored or removed and the
\* sender's context is unchanged
C11_DefensiveParsing ==
    \A u \in Users : \A upd \in MalformedUpdates(S) :
        LET r == process_update(S, u, upd)
        IN  /\ ~r.raised
            /\ r.S.time_entries = time_entries
            /\ r.S.projects = projects
            /\ r.S.user_data[u] = user_data[u]

(***************************************************************************)
(* C12. The start of the wizard.                                           *)
(***************************************************************************)
\* the two forms of start-add-entry: the inline button and the keyboard text
StartUpdates == {Callback(<<"add", "hours">>), Text(TXT_ADD_HOURS)}

C13_ProjectGuard ==
    \A u \in Users : \A p \in 1..(MaxProjectId + 1) :
        conversations[u] = SELECTING_PROJECT
            => LET r == process_update(S, u, Callback(<<"project", IdString(p)>>))
               IN  IF p \in get_projects(S)
                   THEN /\ r.S.conversations[u] = ENTERING_HOURS
                        /\ r.S.user_data[u] =
                               Put(Put(user_data[u], "selected_project_id", p),
                                   "selected_project_name", projects[p].name)
                   ELSE /\ r.S.conversations[u] = SELECTING_PROJECT
                        /\ r.S.user_data[u] = user_data[u]

(***************************************************************************)
(* C14. The range of the hours.                                            *)
(***************************************************************************)
\* C14: whenever an update the wizard's state takes sets or changes
\* selected_hours, the new value is one of the presets 0.5, 1, 2, 4, set by
\* an hours token, or a typed number greater than 0 and at most 24; and the
\* hours of an entry an update stores are a number greater than 0 and at
\* most 24
C14_HoursRange ==
    LET HoursTexts == {Text(t) : t \in {"0.5", "1.5", "24", "25", "0", "-1", "abc", "nan"}}
        HoursTokens == {Callback(<<"hours", v>>) : v \in {"0.5", "1", "2", "4", "25", "custom"}}
    IN  \A u \in Users : \A upd \in HoursTexts \cup HoursTokens \cup WizardUpdates :
            LET r == process_update(S, u, upd)
                hours == r.S.user_data[u]["selected_hours"]
            IN  /\ (/\ Listed(S, u, upd)
                    /\ Has(r.S.user_data[u], "selected_hours")
                    /\ Get(user_data[u], "selected_hours", 0) # hours)
                       => \/ IsCallback(upd) /\ hours \in {50, 100, 200, 400}
                          \/ IsText(upd) /\ hours # NaN /\ hours > 0 /\ hours <= 2400
                /\ \A e \in r.S.time_entries \ time_entries :
                       e.hours # NaN /\ e.hours > 0 /\ e.hours <= 2400

(***************************************************************************)
(* C15. Typed hours that are rejected.                                     *)
(***************************************************************************)
\* C15: in ENTERING_HOURS a typed text that is no number ("abc", "nan") or a
\* number that is 0, negative or above 24 is answered with a validation
\* error and changes nothing: the wizard stays in ENTERING_HOURS with the
\* same context; a retry with 24 is then accepted, storing 24 hours and
\* moving to ENTERING_DESCRIPTION
C15_HoursValidation ==
    \A u \in Users :
        conversations[u] = ENTERING_HOURS
            => \A t \in {"abc", "x", "nan", "0", "-1", "25"} :
                   LET r == process_update(S, u, Text(t))
                       retry == process_update(r.S, u, Text("24"))
                   IN  /\ r.reply \in {"bad_hours_format", "bad_hours_range"}
                       /\ r.S = S
                       /\ retry.S.conversations[u] = ENTERING_DESCRIPTION
                       /\ retry.S.user_data[u] = Put(user_data[u], "selected_hours", 2400)

C17_NoFutureEntries ==
    \A u \in Users :
        conversations[u] = SELECTING_DATE
            => \A d \in {<<"cal", "select", "2024", "6", "14">>,
                         <<"cal", "select", "2024", "6", "15">>,
                         <<"cal", "select", "2024", "6", "16">>,
                         <<"cal", "select", "2025", "6", "15">>,
                         <<"date", "2024-06-15">>, <<"date", "2024-06-17">>} :
                   \A e \in process_update(S, u, Callback(d)).S.time_entries \ time_entries :
                       ~DateLess(today, e.date)

(***************************************************************************)
(* C18. The end date of a custom report range.                             *)
(***************************************************************************)
\* C18: in the end phase (a start date is stored) the selected end date d is
\* accepted exactly when d is not before the start and at most 365 days
\* after it: for the starts 2024-06-14 and 2024-06-15 the ends one year later
\* to the day are accepted and the ends one day after that rejected, the
\* start itself is accepted and the day before it rejected; start 2024-06-10
\* with end 2024-06-01 and start 2024-01-01 with end 2025-06-01 are
\* rejected, start 2024-01-01 with end 2024-06-01 (152 days) is accepted.
\* An accepted end date generates one custom report for (start, d) and the
\* subject, removes both range fields and changes nothing else, so that the
\* next selection is a start date again
C18_CustomRange ==
    LET Select(date) == Callback(<<"report", "cal", "select">> \o date)
        Range(u, a, b) == process_update(process_update(S, u, Select(a)).S, u, Select(b))
        Ends == {<<"2024", "6", "14">>, <<"2024", "6", "15">>, <<"2025", "6", "14">>,
                 <<"2025", "6", "15">>, <<"2025", "6", "16">>}
        Accepted == {<<<<2024, 6, 14>>, <<"2024", "6", "14">>>>, <<<<2024, 6, 14>>, <<"2024", "6", "15">>>>,
                     <<<<2024, 6, 14>>, <<"2025", "6", "14">>>>, <<<<2024, 6, 15>>, <<"2024", "6", "15">>>>,
                     <<<<2024, 6, 15>>, <<"2025", "6", "14">>>>, <<<<2024, 6, 15>>, <<"2025", "6", "15">>>>}
    IN  \A u \in Users :
            /\ Has(user_data[u], "report_start_date")
                   => \A d \in Ends :
                          LET first == user_data[u]["report_start_date"]
                              r == process_update(S, u, Select(d))
                          IN  IF <<first, d>> \in Accepted
                              THEN /\ r.reply = "report"
                                   /\ r.report.kind = "custom"
                                   /\ r.report.subject = Subject(S, u)
                                   /\ r.report.from = first
                                   /\ r.report.to = <<py_int(d[1]), py_int(d[2]), py_int(d[3])>>
                                   /\ r.S = [S EXCEPT !.user_data[u] =
                                                Pop(Pop(@, "report_start_date"),
                                                    "report_start_date_formatted")]
                                   /\ process_update(r.S, u, Select(d)).report = NoReport
                              ELSE r.report = NoReport
            /\ ~Has(user_data[u], "report_start_date")
                   => /\ Range(u, <<"2024", "6", "10">>, <<"2024", "6", "1">>).reply = "end_before_start"
                      /\ Range(u, <<"2024", "1", "1">>, <<"2025", "6", "1">>).reply = "period_too_long"
                      /\ DayNumber(<<2024, 6, 1>>) - DayNumber(<<2024, 1, 1>>) = 152
                      /\ Range(u, <<"2024", "1", "1">>, <<"2024", "6", "1">>).reply = "report"
                      /\ Range(u, <<"2024", "1", "1">>, <<"2024", "6", "1">>).report.kind = "custom"
                      /\ Range(u, <<"2024", "1", "1">>, <<"2024", "6", "1">>).report.from = <<2024, 1, 1>>
                      /\ Range(u, <<"2024", "1", "1">>, <<"2024", "6", "1">>).report.to = <<2024, 6, 1>>
                      /\ Range(u, <<"2024", "1", "1">>, <<"2024", "6", "1">>).S = S

\* the administrator, viewing the member's reports, stored 2024-06-14 as the
\* start, so that an end on the same day, on the next day and one year later
\* are accepted
C18_Witness ==
    /\ Has(user_data[ADMIN_USER_ID], "report_start_date")
    /\ user_data[ADMIN_USER_ID]["report_start_date"] = <<2024, 6, 14>>
    /\ Get(user_data[ADMIN_USER_ID], "admin_target_user_id", 0) = Member
    /\ ~Has(user_data[Member], "report_start_date")

(***************************************************************************)
(* C19. A rejected end date keeps the range selection as it is.            *)
(***************************************************************************)
\* C19: in the end phase an end date before the start, or more than 365 days
\* after it, is answered with the notice of its rejection, generates no
\* report and changes nothing: the start date stays stored, a second
\* rejected date is rejected again, and the next accepted selection is an
\* end date for the same start
C19_RejectedKeepsState ==
    LET Select(date) == Callback(<<"report", "cal", "select">> \o date)
        Before == {<<<<2024, 6, 14>>, <<"2024", "6", "10">>>>, <<<<2024, 6, 15>>, <<"2024", "6", "10">>>>,
                   <<<<2024, 6, 15>>, <<"2024", "6", "14">>>>}
        TooLong == {<<<<2024, 6, 14>>, <<"2025", "6", "15">>>>, <<<<2024, 6, 14>>, <<"2025", "6", "16">>>>,
                    <<<<2024, 6, 15>>, <<"2025", "6", "16">>>>}
    IN  \A u \in Users :
            Has(user_data[u], "report_start_date")
                => \A p \in Before \cup TooLong :
                       p[1] = user_data[u]["report_start_date"]
                           => LET r == process_update(S, u, Select(p[2]))
                                  again == process_update(r.S, u, Select(p[2]))
                                  next == process_update(again.S, u, Select(<<"2024", "6", "15">>))
                              IN  /\ r.reply = (IF p \in Before THEN "end_before_start"
                                                ELSE "period_too_long")
                                  /\ r.report = NoReport
                                  /\ r.S = S
                                  /\ again.reply = r.reply
                                  /\ again.S = S
                                  /\ next.report.kind = "custom"
                                  /\ next.report.from = p[1]
                                  /\ next.report.to = <<2024, 6, 15>>

\* the member stored 2024-06-15 as the start, so that the day before it is a
\* rejected end date
C19_Witness ==
    /\ Has(user_data[Member], "report_start_date")
    /\ user_data[Member]["report_start_date"] = <<2024, 6, 15>>
    /\ ~is_admin(S, Member)

(***************************************************************************)
(* C20. The start phase of a custom report range.                          *)
(***************************************************************************)
\* C20: with no start date stored, a selected day is stored as the start
\* date, generates no report, renders the calendar for the end date and
\* changes nothing else; no update generates a custom report unless a start
\* date is already stored and the update is the selection of the end date,
\* the report then starting at that stored date; and only the first
\* selection sets the start date, none changes it
C20_StartPhase ==
    LET Days == {<<"2024", "6", "14">>, <<"2024", "6", "15">>, <<"2025", "6", "16">>,
                 <<"2024", "1", "1">>}
        Select(date) == Callback(<<"report", "cal", "select">> \o date)
    IN  \A u \in Users :
            /\ ~Has(user_data[u], "report_start_date")
                   => \A d \in Days :
                          LET r == process_update(S, u, Select(d))
                              date == <<py_int(d[1]), py_int(d[2]), py_int(d[3])>>
                          IN  /\ r.report = NoReport
                              /\ r.reply = "report_calendar_end"
                              /\ r.S = [S EXCEPT !.user_data[u] =
                                           Put(Put(@, "report_start_date", date),
                                               "report_start_date_formatted", date)]
            /\ \A upd \in ImpersonationUpdates \cup {Select(d) : d \in Days} :
                   LET r == process_update(S, u, upd)
                   IN  /\ r.report.kind = "custom"
                           => /\ Has(user_data[u], "report_start_date")
                              /\ StartsWith(upd.data, <<"report", "cal", "select">>)
                              /\ r.report.from = user_data[u]["report_start_date"]
                       /\ (/\ Has(r.S.user_data[u], "report_start_date")
                           /\ ~Has(user_data[u], "report_start_date"))
                           => StartsWith(upd.data, <<"report", "cal", "select">>)
                       /\ (/\ Has(r.S.user_data[u], "report_start_date")
                           /\ Has(user_data[u], "report_start_date"))
                           => r.S.user_data[u]["report_start_date"]
                                  = user_data[u]["report_start_date"]

\* the member selected a first day and no report was generated: the start
\* date and its display form are stored, the member views its own reports
C20_Witness ==
    /\ Has(user_data[Member], "report_start_date")
    /\ Has(user_data[Member], "report_start_date_formatted")
    /\ ~Has(user_data[Member], "admin_target_user_id")
    /\ conversations[Member] = IDLE

C22_PastOnlyCalendar ==
    \A month \in {<<2023, 12>>, <<2024, 2>>, <<2024, 6>>, <<2024, 7>>} :
    \A keyboard \in {generate_calendar(month[1], month[2], today)} :
        LET cells == {keyboard[r][c] : r \in 3..Len(keyboard), c \in 1..7}
            days == 1..DaysInMonth(month[1], month[2])
        IN  /\ Cardinality({cell \in cells : cell.text # 0}) = Cardinality(days)
            /\ \A cell \in cells :
                IF cell.text \in days /\ ~DateLess(today, <<month[1], month[2], cell.text>>)
                THEN cell.data = "cal_select" /\ cell.args = <<month[1], month[2], cell.text>>
                ELSE cell.data = "cal_ignore" /\ cell.text \in days \cup {0}
            /\ \A day \in days : \E cell \in cells : cell.text = day
            /\ (month = <<2024, 6>> /\ today = <<2024, 6, 15>>) =>
                /\ keyboard[5][6].text = 15 /\ keyboard[5][6].data = "cal_select"
                /\ keyboard[5][7].text = 16 /\ keyboard[5][7].data = "cal_ignore"

\* the member is choosing a date after midnight has passed: the 16th of June
\* has become selectable and the 17th is a placeholder
C22_Witness ==
    /\ conversations[Member] = SELECTING_DATE
    /\ today = <<2024, 6, 16>>
    /\ generate_calendar(2024, 6, today)[5][7].data = "cal_select"
    /\ generate_calendar(2024, 6, today)[6][1].data = "cal_ignore"
    /\ generate_calendar(2024, 6, today)[6][1].text = 17

\* C23: in SELECTING_DATE 'previous' from (y, 1) leads to (y-1, 12), 'next'
\* from (y, 12) to (y+1, 1), otherwise the month moves by one; a target year
\* outside [currentYear-1, currentYear] is answered with the notice and a
\* target within it with the calendar of the target month, and in both cases
\* the state stays SELECTING_DATE and nothing in the context or the stores
\* changes
C23_CalendarNavigation ==
    \A u \in Users : conversations[u] = SELECTING_DATE =>
        \A direction \in {"prev", "next"} : \A year \in {"2023", "2024", "2025"} :
        \A month \in {"1", "6", "12"} :
            LET y == py_int(year)
                m == py_int(month)
                target == IF direction = "prev" /\ m = 1 THEN <<y - 1, 12>>
                          ELSE IF direction = "next" /\ m = 12 THEN <<y + 1, 1>>
                          ELSE IF direction = "prev" THEN <<y, m - 1>>
                          ELSE <<y, m + 1>>
                r == process_update(S, u, Callback(<<"cal", direction, year, month>>))
            IN  /\ calendar_target(direction, y, m) = target
                /\ ~r.raised
                /\ r.S = S
                /\ r.reply = (IF target[1] \in (today[1] - 1)..today[1]
                              THEN "calendar" ELSE "period_unavailable")
                /\ r.reply = "calendar" => r.ret = SELECTING_DATE

\* the member is choosing a date: 'previous' from January 2024 shows December
\* 2023 and 'previous' from January 2023 is refused
C23_Witness ==
    /\ conversations[Member] = SELECTING_DATE
    /\ process_update(S, Member, Callback(<<"cal", "prev", "2024", "1">>)).reply = "calendar"
    /\ process_update(S, Member, Callback(<<"cal", "prev", "2023", "1">>)).reply
           = "period_unavailable"
    /\ process_update(S, Member, Callback(<<"cal", "next", "2024", "12">>)).reply
           = "period_unavailable"

\* C24: a navigation token of the report calendar, sent by a user who is not
\* banned, is answered with the calendar of the current phase exactly when
\* the target year lies in [currentYear-2, currentYear+1] and with the notice
\* otherwise; in both cases report_start_date, the phase and everything else
\* in the state stay as they were
C24_ReportNavigation ==
    \A u \in Users : ~check_user_ban(S, u) =>
        \A direction \in {"prev", "next"} : \A year \in {"2022", "2023", "2024", "2025"} :
        \A month \in {"1", "6", "12"} :
            LET y == py_int(year)
                m == py_int(month)
                target == IF direction = "prev" /\ m = 1 THEN y - 1
                          ELSE IF direction = "next" /\ m = 12 THEN y + 1
                          ELSE y
                r == process_update(S, u, Callback(<<"report", "cal", direction, year, month>>))
            IN  /\ ~r.raised
                /\ r.S = S
                /\ r.report = NoReport
                /\ r.reply = (IF target \in (today[1] - 2)..(today[1] + 1)
                              THEN (IF Has(user_data[u], "report_start_date")
                                    THEN "report_calendar_end" ELSE "report_calendar_start")
                              ELSE "period_unavailable")

\* a user has selected a start date and navigates: 'previous' from January
\* 2023 shows December 2022 for the end date, 'previous' from January 2022
\* and 'next' from December 2025 are refused
C24_Witness ==
    \E u \in Users :
        /\ Has(user_data[u], "report_start_date")
        /\ process_update(S, u, Callback(<<"report", "cal", "prev", "2023", "1">>)).reply
               = "report_calendar_end"
        /\ process_update(S, u, Callback(<<"report", "cal", "prev", "2022", "1">>)).reply
               = "period_unavailable"
        /\ process_update(S, u, Callback(<<"report", "cal", "next", "2025", "12">>)).reply
               = "period_unavailable"

\* C25: the report calendar of a month has the row previous/label/next, the
\* row of the seven weekday labels from Monday to Sunday, one row of seven
\* cells for each calendar week of the month (4 to 6 rows) and a last row
\* with the single token back to the reports menu; every day of the month,
\* past or future, carries report_cal_select with its date in the column of
\* its weekday, and only the cells outside the month are placeholders
C25_ReportCalendar ==
    \A month \in {<<today[1], today[2]>>, <<2021, 2>>, <<2024, 9>>} :
    \A keyboard \in {generate_report_calendar(month[1], month[2])} :
        LET last == Len(keyboard)
            days == 1..DaysInMonth(month[1], month[2])
            weekday(day) == ((DayNumber(<<month[1], month[2], day>>) + 3) % 7) + 1
            weeks == {w \in 1..6 : \E day \in days : (day + weekday(1) - 2) \div 7 + 1 = w}
        IN  /\ last - 3 \in 4..6
            /\ last - 3 = Cardinality(weeks)
            /\ Len(keyboard[1]) = 3
            /\ keyboard[1][1].data = "report_cal_prev" /\ keyboard[1][1].args = month
            /\ keyboard[1][2].data = "report_cal_ignore" /\ keyboard[1][2].label = "month"
            /\ keyboard[1][3].data = "report_cal_next" /\ keyboard[1][3].args = month
            /\ Len(keyboard[2]) = 7
            /\ \A c \in 1..7 :
                /\ keyboard[2][c].label = <<"Mon", "Tue", "Wed", "Thu", "Fri", "Sat", "Sun">>[c]
                /\ keyboard[2][c].data = "report_cal_ignore"
            /\ \A r \in 3..(last - 1) :
                /\ Len(keyboard[r]) = 7
                /\ \A c \in 1..7 :
                    IF keyboard[r][c].text = 0
                    THEN keyboard[r][c].data = "report_cal_ignore"
                    ELSE /\ keyboard[r][c].text \in days
                         /\ keyboard[r][c].data = "report_cal_select"
                         /\ keyboard[r][c].args = <<month[1], month[2], keyboard[r][c].text>>
                         /\ weekday(keyboard[r][c].text) = c
            /\ \A day \in days :
                Cardinality({cell \in (3..(last - 1)) \X (1..7) :
                                 keyboard[cell[1]][cell[2]].text = day}) = 1
            /\ Len(keyboard[last]) = 1
            /\ keyboard[last][1].data = "reports"

\* a user has selected a start date and sees the calendar of June 2024 for the
\* end date: the 16th, the day after today, is selectable, and the back token
\* is the sixth row after the two header rows
C25_Witness ==
    \E u \in Users :
        /\ Has(user_data[u], "report_start_date")
        /\ today = <<2024, 6, 15>>
        /\ generate_report_calendar(today[1], today[2])[5][7].data = "report_cal_select"
        /\ generate_report_calendar(today[1], today[2])[5][7].args = <<2024, 6, 16>>
        /\ generate_report_calendar(today[1], today[2])[8][1].data = "reports"

(***************************************************************************)
(* Deleting an entry from a page of the listing.                           *)
(***************************************************************************)
\* C26: when a user who is not banned confirms the deletion of an entry it
\* owns, with the token carrying page p, exactly that entry is removed and
\* nothing else in the state changes, the reply is the entries listing of
\* page p over the entries that remain, and the same token sent again removes
\* nothing and is answered with the same listing
C26_DeleteConfirm ==
    \A e \in time_entries : \A page \in {"0", "1"} :
        LET u == e.user_id
            confirm == Callback(<<"confirm", "delete", "from", "page", IdString(e.id), page>>)
            r1 == process_update(S, u, confirm)
            r2 == process_update(r1.S, u, confirm)
            listing == IF entries_page_view(Cardinality(user_entries(S, u)) - 1,
                                            py_int(page)).rows = 0
                       THEN "no_entries" ELSE "entries_page"
        IN  ~check_user_ban(S, u) =>
                /\ r1.S = [S EXCEPT !.time_entries = @ \ {e}]
                /\ ~r1.raised /\ r1.reply = listing
                /\ r2.S = r1.S
                /\ ~r2.raised /\ r2.reply = listing

\* the member has confirmed the deletion of its entry 2 from page 0: the
\* entry is gone, the administrator's entry is still stored, and the token
\* sent again finds nothing to remove
C26_Witness ==
    /\ next_entry_id = 3
    /\ user_entries(S, Member) = {}
    /\ user_entries(S, ADMIN_USER_ID) # {}
    /\ ~check_user_ban(S, Member)
    /\ process_update(S, Member,
                      Callback(<<"confirm", "delete", "from", "page", "2", "0">>)).S = S

\* C27: for a user who is not banned, the request to delete entry id from
\* page p shows the confirmation exactly when an entry with that id is stored
\* and owned by the user; the request changes nothing in the state; the
\* cancel token of the confirmation carries the same page p, and sending it
\* changes nothing either and shows the selection list of page p again
C27_DeleteRequestCancel ==
    \A u \in Users : \A id \in 1..(MaxEntryId + 1) : \A page \in {"0", "1"} :
        LET request == Callback(<<"delete", "entry", "from", "page", IdString(id), page>>)
            r1 == process_update(S, u, request)
            keyboard == confirm_delete_keyboard(id, py_int(page))
            r2 == process_update(r1.S, u, Callback(keyboard.cancel))
        IN  ~check_user_ban(S, u) =>
                /\ r1.S = S /\ ~r1.raised
                /\ (r1.reply = "confirm_delete")
                       = (\E e \in time_entries : e.id = id /\ e.user_id = u)
                /\ r1.reply # "confirm_delete" => r1.reply = "entry_not_found"
                /\ r1.reply = "confirm_delete" =>
                       /\ keyboard.cancel = <<"delete", "entries", "page", page>>
                       /\ keyboard.confirm = <<"confirm", "delete", "from", "page",
                                               IdString(id), page>>
                       /\ route(r1.S, u, Callback(keyboard.cancel))
                              = "show_delete_entries_from_page"
                       /\ r2.S = S /\ ~r2.raised
                       /\ r2.reply = (IF entries_page_view(Cardinality(user_entries(S, u)),
                                                           py_int(page)).rows = 0
                                      THEN "no_entries_to_delete" ELSE "delete_page")

\* the member has logged entry 2: its request to delete it from page 0 shows
\* the confirmation, the request for the administrator's entry 1 does not, and
\* cancel shows the selection list of page 0
C27_Witness ==
    /\ \E e \in time_entries : e.id = 2 /\ e.user_id = Member
    /\ \E e \in time_entries : e.id = 1 /\ e.user_id = ADMIN_USER_ID
    /\ ~check_user_ban(S, Member)
    /\ process_update(S, Member,
                      Callback(<<"delete", "entry", "from", "page", "2", "0">>)).reply
           = "confirm_delete"
    /\ process_update(S, Member,
                      Callback(<<"delete", "entry", "from", "page", "1", "0">>)).reply
           = "entry_not_found"
    /\ process_update(S, Member, Callback(confirm_delete_keyboard(2, 0).cancel)).reply
           = "delete_page"

(***************************************************************************)
(* Sessions.                                                               *)
(***************************************************************************)
\* C28: an update of user a leaves the context and the wizard state of every
\* other user b as they were, and its outcome (reply, return value, report
\* call, exception, and every change to the state) is the same whatever b's
\* context and wizard state are
C28_SessionIsolation ==
    \A a \in Users : \A b \in Users \ {a} :
    \A upd \in ImpersonationUpdates
               \cup {Callback(<<"back", "to", "main">>), Command("/start"), Text(TXT_ADD_HOURS),
                     Callback(<<"confirm", "delete", "from", "page", "1", "0">>)} :
        LET r == process_update(S, a, upd)
            Replaced(s, state, context) ==
                [s EXCEPT !.conversations[b] = state, !.user_data[b] = context]
        IN  /\ r.S.user_data[b] = user_data[b]
            /\ r.S.conversations[b] = conversations[b]
            /\ \A other \in {<<IDLE, EmptyDict>>,
                             <<SELECTING_DATE, user_data[a]>>,
                             <<conversations[a], Put(EmptyDict, "admin_action", "add_project")>>} :
                LET q == process_update(Replaced(S, other[1], other[2]), a, upd)
                IN  /\ q.reply = r.reply /\ q.ret = r.ret /\ q.raised = r.raised
                    /\ q.report = r.report
                    /\ q.S = Replaced(r.S, other[1], other[2])

\* both users hold a context, the member inside a wizard run, and the
\* member returns to the main menu: its own context is cleared, the
\* administrator's is untouched
C28_Witness ==
    /\ user_data[Member] # EmptyDict
    /\ user_data[ADMIN_USER_ID] # EmptyDict
    /\ conversations[Member] # IDLE
    /\ process_update(S, Member, Callback(<<"back", "to", "main">>)).S.user_data[Member]
           = EmptyDict

(***************************************************************************)
(* The capture of a project name.                                          *)
(***************************************************************************)
\* C29: while a project-name capture is pending for a user who is not
\* banned, the user's next text is taken as a project name: a project of
\* that name is created exactly when the sender is an admin at that moment
\* and no project has the name, nothing else is stored, and in every case
\* the sender's context is empty afterwards
C29_ProjectCapture ==
    \A u \in Users :
        (Get(user_data[u], "admin_action", None) = "add_project" /\ ~check_user_ban(S, u)) =>
            \A text \in {"x", "Dev"} :
                LET r == process_update(S, u, Text(text))
                    created == \E p \in DOMAIN r.S.projects \ DOMAIN projects :
                                   r.S.projects[p].name = text
                IN  /\ r.S.user_data[u] = EmptyDict
                    /\ created = (/\ is_admin(S, u)
                                  /\ ~\E p \in DOMAIN projects : projects[p].name = text)
                    /\ r.S.time_entries = time_entries
                    /\ \A p \in DOMAIN projects :
                           p \in DOMAIN r.S.projects /\ r.S.projects[p] = projects[p]

(***************************************************************************)
(* The wizard's fields under stale tokens.                                 *)
(***************************************************************************)
\* C30: in every reachable state, a user whose wizard is in
\* ENTERING_DESCRIPTION or SELECTING_DATE has selected_project_id,
\* selected_project_name and selected_hours in its context
C30_FieldsSurviveStaleTokens ==
    \A u \in Users :
        conversations[u] \in {ENTERING_DESCRIPTION, SELECTING_DATE} =>
            /\ Has(user_data[u], "selected_project_id")
            /\ Has(user_data[u], "selected_project_name")
            /\ Has(user_data[u], "selected_hours")

(***************************************************************************)
(* Reports on behalf of another user.                                      *)
(***************************************************************************)
\* C31: when a user opens its own reports menu (the token reports of the main
\* menu) and then requests a report or the CSV export, the call is made for
\* the user's own id, whatever the user did before
C31_OwnReportsStayOwn ==
    \A u \in Users : \A k \in ReportKinds :
        LET menu == process_update(S, u, Callback(<<"reports">>))
            r == process_update(menu.S, u, Callback(k[1]))
        IN  menu.reply = "reports_menu" => r.report.kind = k[2] /\ r.report.subject = u

\* C32: a report or export call is made for a user other than the sender
\* only when the sender passes the admin check at that moment
C32_ImpersonationNeedsAdmin ==
    \A u \in Users :
    \A upd \in {Callback(k[1]) : k \in ReportKinds}
               \cup {Callback(<<"report", "cal", "select", "2024", "6", "15">>)} :
        LET r == process_update(S, u, upd)
        IN  (r.report # NoReport /\ r.report.subject # u) => is_admin(S, u)

\* C33: each time the custom-range selection is entered (token report_custom,
\* answered with the prompt for the start date), the first day selected next
\* is stored as the start date and generates no report
C33_CustomRangeStartsFresh ==
    \A u \in Users : \A day \in {"14", "15"} :
        LET enter == process_update(S, u, Callback(<<"report", "custom">>))
            r == process_update(enter.S, u, Callback(<<"report", "cal", "select", "2024", "6", day>>))
        IN  enter.reply = "report_calendar_start" =>
                /\ r.report = NoReport
                /\ Has(r.S.user_data[u], "report_start_date")
                /\ r.S.user_data[u]["report_start_date"] = <<2024, 6, py_int(day)>>

(***************************************************************************)
(* The listing after a deletion.                                           *)
(***************************************************************************)
\* C34: a user who is not banned has six entries, five on page 0 and the
\* oldest, entry 6, alone on page 1, and confirms the deletion of entry 6
\* from page 1: the listing rendered next shows a page that exists, so with
\* five entries left it is not the 'no entries' message
C34_ListingAfterDelete ==
    \A u \in Users :
        LET six == {[id |-> i, user_id |-> u, project_id |-> 1, hours |-> 100,
                     description |-> None, date |-> <<2024, 6, 15 - i>>] : i \in 1..6}
            store == [S EXCEPT !.time_entries = {e \in @ : e.user_id # u /\ e.id \notin 1..6}
                                                    \cup six]
            r == process_update(store, u,
                                Callback(<<"confirm", "delete", "from", "page", "6", "1">>))
        IN  (1 \in DOMAIN projects /\ ~check_user_ban(S, u)) =>
                /\ Cardinality(user_entries(r.S, u)) = 5
                /\ r.reply = "entries_page"

\* C35: every token that a render emits is routed to a handler that performs
\* the action: no button of the admin menu that an administrator has just been
\* shown, and no page arrow of the user list that 'admin_users' renders for
\* the registered users (admin_users_page_<n>), is answered with 'unknown
\* action'.
C35_RenderedTokensHandled ==
    \A u \in Users :
        LET menu == process_update(S, u, Callback(<<"admin", "menu">>))
            buttons == {get_admin_keyboard[i][j] : i \in 1..2, j \in 1..2}
            arrows == {<<"admin", "users", "page", IdString(p)>> :
                          p \in get_users_keyboard(Cardinality(DOMAIN users), 0).next}
        IN  menu.reply = "admin_menu" =>
                \A data \in buttons \cup arrows :
                    process_update(menu.S, u, Callback(data)).reply # "unknown_action"

\* C36: the acting user owns the writes: whatever the sender's context holds
\* (admin_target_user_id included), a date choice of the wizard adds only
\* entries stored with the sender's id, and a confirmed entry deletion removes
\* only entries of the sender.
C36_Writes ==
    {Callback(<<"date", "2024-06-15">>), Callback(<<"cal", "select", "2024", "6", "14">>),
     Callback(<<"confirm", "delete", "1">>), Callback(<<"confirm", "delete", "2">>),
     Callback(<<"confirm", "delete", "from", "page", "1", "0">>),
     Callback(<<"confirm", "delete", "from", "page", "2", "0">>)}

C36_ActingUserOwnsWrites ==
    \A u \in Users : \A upd \in C36_Writes :
        LET r == process_update(S, u, upd)
        IN  /\ \A e \in r.S.time_entries \ time_entries : e.user_id = u
            /\ \A e \in time_entries \ r.S.time_entries : e.user_id = u

\* a user who has another user's reports open and an entry of its own is at
\* the date step: the date choice stores an entry and the confirmed deletion
\* removes the own entry and not the other user's
C36_Witness ==
    \E u \in Users :
        /\ Has(ctx(S, u), "admin_target_user_id")
        /\ ctx(S, u)["admin_target_user_id"] # u
        /\ conversations[u] = SELECTING_DATE
        /\ process_update(S, u, Callback(<<"date", "2024-06-15">>)).S.time_entries
               \ time_entries # {}
        /\ \E e \in time_entries :
               /\ e.user_id = u
               /\ e \notin process_update(S, u, Callback(<<"confirm", "delete",
                                                           IdString(e.id)>>)).S.time_entries
        /\ \E e \in time_entries :
               /\ e.user_id # u
               /\ e \in process_update(S, u, Callback(<<"confirm", "delete",
                                                       IdString(e.id)>>)).S.time_entries

\* C37: project deletion is atomic and admin-only: in every reachable state
\* each time entry references an existing project, also when date choices of
\* a wizard run for the project come before or after the deletion; the token
\* final_delete_project_<id> changes nothing for a sender who fails the admin
\* check, and for any sender it either leaves the store as it is or removes
\* the project together with every entry of the project and nothing else.
C37_ProjectDeletionAtomic ==
    /\ \A e \in time_entries : e.project_id \in DOMAIN projects
    /\ \A u \in Users : \A pid \in 1..MaxProjectId : \A ok \in BOOLEAN :
           LET upd == [Callback(<<"final", "delete", "project", IdString(pid)>>)
                          EXCEPT !.db_ok = ok]
               r == process_update(S, u, upd)
           IN  /\ ~is_admin(S, u) => r.S = S
               /\ \/ r.S = S
                  \/ /\ pid \in DOMAIN projects
                     /\ DOMAIN r.S.projects = DOMAIN projects \ {pid}
                     /\ r.S.time_entries = {e \in time_entries : e.project_id # pid}

\* the project of a wizard run has been deleted while its user is at the date
\* step with the project still selected: the date choice stores nothing
C37_Witness ==
    \E u \in Users :
        /\ conversations[u] = SELECTING_DATE
        /\ Has(ctx(S, u), "selected_project_id")
        /\ ctx(S, u)["selected_project_id"] \notin DOMAIN projects
        /\ process_update(S, u, Callback(<<"date", "2024-06-15">>)).S.time_entries = time_entries

C39_CancellationReachable ==
    \A u \in Users :
        LET rendered == (WizardUpdates \cup BrowsingUpdates \cup DeleteUpdates
                         \cup AdminTransitions \cup {Callback(k[1]) : k \in ReportKinds}
                         \cup {Callback(d) : d \in DateTokens(S) \cup project_keyboard(S)})
                        \ {Callback(<<"back", "to", "main">>)}
            typed == {Text(t) : t \in {TXT_ADD_HOURS, TXT_MY_ENTRIES, TXT_REPORTS, TXT_HELP,
                                       TXT_DELETE, TXT_ADMIN, "x", "2"}}
                     \cup {Command("/start"), Command("/help")}
        IN  conversations[u] # IDLE =>
                \E upd \in rendered \cup typed :
                    LET r == process_update(S, u, upd)
                    IN  /\ r.S.conversations[u] = IDLE
                        /\ ctx(r.S, u) = EmptyDict
                        /\ r.S.time_entries = time_entries

====
